---------------------------- MODULE Spec2Model ----------------------------
(***************************************************************************)
(* A model of shapeit: spatially referenced geometries.                    *)
(*                                                                         *)
(*   shapeit/measure.py        unit conversion (meters, convert)           *)
(*   shapeit/sr.py             Sr, the three process-wide caches, sr,      *)
(*                             by_srid, utm, transform_fn                  *)
(*   shapeit/geometry/base.py  SrGeometry and its variants, sr_shape       *)
(*   shapeit/geometry/multi.py the multi-part variants                     *)
(*   shapeit/types.py          pyfqn, pycls                                *)
(*                                                                         *)
(* Every call of the public surface is one action.  The action records     *)
(* the call in `call` and what the call returned or raised in `ret`.       *)
(***************************************************************************)
EXTENDS Integers, Sequences, FiniteSets, TLC

VARIABLES
    call,                 \* the last call made: [op |-> ..., arguments]
    ret,                  \* what it returned (kind "ok") or raised (kind "raise")
    _sr_cache,            \* sr.py:79   (srid, authority) -> Sr
    _proj_cache,          \* sr.py:21   (srid, authority) -> projection handle
    _transform_fn_cache,  \* sr.py:83   (from Sr, to Sr) -> transform function
    _geometry_type_map,   \* base.py:586 structural kind -> wrapper class
    heap,                 \* the live SrGeometry instances, by reference
    raised                \* how many calls raised InvalidSrException (saturating)

vars == <<call, ret, _sr_cache, _proj_cache, _transform_fn_cache,
          _geometry_type_map, heap, raised>>

(***************************************************************************)
(* Results of a call.                                                      *)
(***************************************************************************)
Ok(v) == [kind |-> "ok", val |-> v]

RaiseFrom(exc, msg, inner) ==
    [kind |-> "raise", exc |-> exc, msg |-> msg, inner |-> inner]

Raise(exc, msg) == RaiseFrom(exc, msg, "None")

NoCall == [op |-> "none"]

NoRet == [kind |-> "none"]

(***************************************************************************)
(* Quantities.  A Python float is modelled as an exact decimal m * 10^e,   *)
(* kept normalised (m not divisible by 10, and 0 = 0 * 10^0), so that two  *)
(* quantities are equal exactly when their records are.  The model has no  *)
(* rounding: a call is only made with arguments whose roots are exact      *)
(* decimals (RootExact).                                                   *)
(***************************************************************************)
RECURSIVE Norm(_, _)
Norm(m, e) ==
    IF m = 0 THEN [m |-> 0, e |-> 0]
    ELSE IF m % 10 = 0 THEN Norm(m \div 10, e + 1)
    ELSE [m |-> m, e |-> e]

Dec(m, e) == Norm(m, e)

RECURSIVE IPow(_, _)
IPow(b, k) == IF k = 0 THEN 1 ELSE b * IPow(b, k - 1)

DMul(a, b) == Norm(a.m * b.m, a.e + b.e)

\* a / b for a divisor whose mantissa divides a's (every unit factor is a
\* power of ten)
DDiv(a, b) == Norm(a.m \div b.m, a.e - b.e)

\* math.pow(a, k) for an integer k >= 1
DPow(a, k) == Norm(IPow(a.m, k), a.e * k)

IsPower(m, k) == \E r \in 0..m : IPow(r, k) = m

IRoot(m, k) == CHOOSE r \in 0..m : IPow(r, k) = m

\* whether the k-th root of a is an exact decimal
RootExact(a, k) ==
    IF a.m < 0 THEN TRUE ELSE (a.e % k = 0 /\ IsPower(a.m, k))

\* math.pow(a, 1.0 / k): a ValueError (math domain error) for a negative a
DRoot(a, k) ==
    IF a.m < 0 THEN Raise("ValueError", "math domain error")
    ELSE Ok(Norm(IRoot(a.m, k), a.e \div k))

(***************************************************************************)
(* shapeit/measure.py                                                      *)
(***************************************************************************)
Units == {"METERS", "KILOMETERS"}

_meter_conversions ==
    [u \in Units |-> IF u = "METERS" THEN Dec(1, 0) ELSE Dec(1000, 0)]

meters(n, units, dimension) ==
    IF dimension < 1 \/ dimension > 3
    THEN Raise("ValueError", "'dimension' must be between 1 and 3.")
    ELSE Ok(DMul(n, DPow(_meter_conversions[units], dimension)))

\* the conversion with the linear factor applied once, whatever the dimension
convert_linear(n, units, to, dimension) ==
    IF dimension < 1 \/ dimension > 3
    THEN Raise("ValueError", "'dimension' must be between 1 and 3.")
    ELSE Ok(DDiv(DMul(n, _meter_conversions[units]), _meter_conversions[to]))

\* convert after its same-units short circuit
convert_other_units(n, units, to, dimension) ==
    IF dimension < 1 \/ dimension > 3
    THEN Raise("ValueError", "'dimension' must be between 1 and 3.")
    ELSE LET side == IF dimension = 1 THEN Ok(n) ELSE DRoot(n, dimension)
         IN  IF side.kind = "raise" THEN side
             ELSE LET m1d  == meters(side.val, units, 1)
                      to1d == DDiv(m1d.val, _meter_conversions[to])
                  IN  Ok(IF dimension = 1 THEN to1d ELSE DPow(to1d, dimension))

convert_check_first(n, units, to, dimension) ==
    IF dimension < 1 \/ dimension > 3
    THEN Raise("ValueError", "'dimension' must be between 1 and 3.")
    ELSE IF units = to THEN Ok(n)
    ELSE convert_other_units(n, units, to, dimension)

convert(n, units, to, dimension) ==
    IF units = to THEN Ok(n)
    ELSE convert_other_units(n, units, to, dimension)

(***************************************************************************)
(* Bounds of the unit converter's inputs.                                  *)
(***************************************************************************)
MaxQExp == 2

Mantissas == {-64, -1, 0, 1, 8, 64, 314, 729}

Quantities == {Dec(m, e) : m \in Mantissas, e \in (-MaxQExp)..MaxQExp}

Dimensions == (-1)..4

\* the arguments the exact decimals can follow convert through
Representable(n, units, to, dimension) ==
    IF units = to \/ dimension \notin 2..3 THEN TRUE
    ELSE RootExact(n, dimension)

(***************************************************************************)
(* The state before any call.                                              *)
(***************************************************************************)
InitMeasure ==
    /\ call = NoCall
    /\ ret = NoRet
    /\ _sr_cache = << >>
    /\ _proj_cache = << >>
    /\ _transform_fn_cache = << >>
    /\ _geometry_type_map = << >>
    /\ heap = << >>
    /\ raised = 0

ConvertCall ==
    \E n \in Quantities, units \in Units, to \in Units, dimension \in Dimensions :
        /\ Representable(n, units, to, dimension)
        /\ call' = [op |-> "convert", n |-> n, units |-> units, to |-> to,
                    dimension |-> dimension]
        /\ ret' = convert(n, units, to, dimension)
        /\ UNCHANGED <<_sr_cache, _proj_cache, _transform_fn_cache,
                       _geometry_type_map, heap, raised>>

MetersCall ==
    \E n \in Quantities, units \in Units, dimension \in Dimensions :
        /\ call' = [op |-> "meters", n |-> n, units |-> units,
                    dimension |-> dimension]
        /\ ret' = meters(n, units, dimension)
        /\ UNCHANGED <<_sr_cache, _proj_cache, _transform_fn_cache,
                       _geometry_type_map, heap, raised>>

NextMeasure == ConvertCall \/ MetersCall

SpecMeasure == InitMeasure /\ [][NextMeasure]_vars

(***************************************************************************)
(* C8.  As claimed: convert and meters raise the invalid-dimension         *)
(* ValueError whenever dimension is outside [1, 3], for every quantity and *)
(* every choice of units.                                                  *)
(***************************************************************************)
C8_RaisesForEveryUnits ==
    (call.op \in {"convert", "meters"} /\ call.dimension \notin 1..3)
        => (ret.kind = "raise" /\ ret.exc = "ValueError")

Put(d, k, v) == [x \in (DOMAIN d) \cup {k} |-> IF x = k THEN v ELSE d[x]]

EmptyDict == << >>

\* class Sr(NamedTuple): compared by value
Sr(srid, authority) == [srid |-> srid, authority |-> authority]

\* An authority argument: a string, the enum member Authorities.EPSG (name
\* 'EPSG', value 'epsg'), or left out of the call.
AuthStr(s) == [tag |-> "str", name |-> s, value |-> s]

Authorities_EPSG == [tag |-> "enum", name |-> "EPSG", value |-> "epsg"]

Omitted == [tag |-> "omitted", name |-> "", value |-> ""]

WGS_84 == Sr(4326, Authorities_EPSG.value)

\* The projection engine behind Proj(init='<authority>:<srid>'): the EPSG
\* codes it knows, the authority read without regard to case.
EngineSrids == {4326, 3857, 2163} \cup 32601..32660 \cup 32701..32760

Lower(s) == IF s = "EPSG" THEN "epsg" ELSE s

EngineResolves(authority, srid) ==
    Lower(authority) = "epsg" /\ srid \in EngineSrids

Proj(authority, srid) == [init |-> <<authority, srid>>]

\* Sr.proj with a fallback to the WGS-84 handle instead of the error
proj_fallback(pc, s) ==
    LET key == <<s.srid, s.authority>>
    IN  IF key \in DOMAIN pc THEN [pc |-> pc, res |-> Ok(pc[key])]
        ELSE LET _proj == IF EngineResolves(s.authority, s.srid)
                          THEN Proj(s.authority, s.srid)
                          ELSE Proj("epsg", 4326)
             IN  [pc |-> Put(pc, key, _proj), res |-> Ok(_proj)]

\* Sr.proj: the new projection-handle cache and the handle or the error
proj(pc, s) ==
    LET key == <<s.srid, s.authority>>
    IN  IF key \in DOMAIN pc THEN [pc |-> pc, res |-> Ok(pc[key])]
        ELSE IF EngineResolves(s.authority, s.srid)
        THEN LET _proj == Proj(s.authority, s.srid)
             IN  [pc |-> Put(pc, key, _proj), res |-> Ok(_proj)]
        ELSE [pc |-> pc,
              res |-> RaiseFrom("InvalidSrException", "CRSError", "CRSError")]

sr_default_authority == Authorities_EPSG

\* sr(srid, authority): the new interning cache and the Sr
sr(sc, srid, authority) ==
    LET a == IF authority.tag = "omitted" THEN sr_default_authority ELSE authority
        _authority == IF a.tag = "enum" THEN a.value ELSE a.name
        key == <<srid, _authority>>
    IN  IF key \in DOMAIN sc THEN [sc |-> sc, val |-> sc[key]]
        ELSE LET _sr == Sr(srid, _authority)
             IN  [sc |-> Put(sc, key, _sr), val |-> _sr]

\* transform_fn that files the pair before it asks for the handles
transform_fn_files_first(tc, pc, from_, to) ==
    LET key == <<from_, to>>
        p1 == proj(pc, from_)
        p2 == proj(p1.pc, to)
    IN  IF key \in DOMAIN tc THEN [tc |-> tc, pc |-> pc, res |-> Ok(tc[key])]
        ELSE IF p1.res.kind = "raise"
        THEN [tc |-> Put(tc, key, EmptyDict), pc |-> p1.pc, res |-> p1.res]
        ELSE IF p2.res.kind = "raise"
        THEN [tc |-> Put(tc, key, EmptyDict), pc |-> p2.pc, res |-> p2.res]
        ELSE [tc |-> Put(tc, key, [p1 |-> p1.res.val, p2 |-> p2.res.val]),
              pc |-> p2.pc,
              res |-> Ok([p1 |-> p1.res.val, p2 |-> p2.res.val])]

\* transform_fn that files the function under both orders of the pair
transform_fn_both_orders(tc, pc, from_, to) ==
    LET p1 == proj(pc, from_)
        p2 == proj(p1.pc, to)
        fn == [p1 |-> p1.res.val, p2 |-> p2.res.val]
    IN  IF <<from_, to>> \in DOMAIN tc
        THEN [tc |-> tc, pc |-> pc, res |-> Ok(tc[<<from_, to>>])]
        ELSE IF p1.res.kind = "raise" THEN [tc |-> tc, pc |-> p1.pc, res |-> p1.res]
        ELSE IF p2.res.kind = "raise" THEN [tc |-> tc, pc |-> p2.pc, res |-> p2.res]
        ELSE [tc |-> Put(Put(tc, <<from_, to>>, fn), <<to, from_>>, fn),
              pc |-> p2.pc, res |-> Ok(fn)]

\* transform_fn(from_, to): the new caches and the function or the error
transform_fn(tc, pc, from_, to) ==
    LET key == <<from_, to>>
    IN  IF key \in DOMAIN tc THEN [tc |-> tc, pc |-> pc, res |-> Ok(tc[key])]
        ELSE LET p1 == proj(pc, from_)
             IN  IF p1.res.kind = "raise"
                 THEN [tc |-> tc, pc |-> p1.pc, res |-> p1.res]
                 ELSE LET p2 == proj(p1.pc, to)
                      IN  IF p2.res.kind = "raise"
                          THEN [tc |-> tc, pc |-> p2.pc, res |-> p2.res]
                          ELSE LET fn == [p1 |-> p1.res.val, p2 |-> p2.res.val]
                               IN  [tc |-> Put(tc, key, fn), pc |-> p2.pc,
                                    res |-> Ok(fn)]

by_srid_default_authority == AuthStr(Authorities_EPSG.name)

\* by_srid(srid, authority, validate): the new caches and the Sr or the error
by_srid(sc, pc, srid, authority, validate) ==
    LET a == IF authority.tag = "omitted" THEN by_srid_default_authority
             ELSE authority
        _sr == sr(sc, srid, a)
    IN  IF validate
        THEN LET p == proj(pc, _sr.val)
             IN  [sc |-> _sr.sc, pc |-> p.pc,
                  res |-> IF p.res.kind = "raise" THEN p.res ELSE Ok(_sr.val)]
        ELSE [sc |-> _sr.sc, pc |-> pc, res |-> Ok(_sr.val)]

(***************************************************************************)
(* utm(lat, lon).  Latitude and longitude are exact decimals; str() and    *)
(* int() work on decimal digits.                                           *)
(***************************************************************************)
\* math.floor((lon + 180) / 6)
FloorSixth(lon) ==
    IF lon.e >= 0
    THEN (lon.m * IPow(10, lon.e) + 180) \div 6
    ELSE (lon.m + 180 * IPow(10, -lon.e)) \div (6 * IPow(10, -lon.e))

\* str(n) for 0 <= n < 100
StrOf(n) == IF n < 10 THEN <<n>> ELSE <<n \div 10, n % 10>>

RECURSIVE IntOf(_)
IntOf(digits) ==
    IF digits = << >> THEN 0
    ELSE 10 * IntOf(SubSeq(digits, 1, Len(digits) - 1)) + digits[Len(digits)]

utm_band_unwrapped(lon) ==
    LET utm_band == StrOf(FloorSixth(lon) + 1)
    IN  IF Len(utm_band) = 1 THEN <<0>> \o utm_band ELSE utm_band

utm_band(lon) ==
    LET utm_band == StrOf((FloorSixth(lon) % 60) + 1)
    IN  IF Len(utm_band) = 1 THEN <<0>> \o utm_band ELSE utm_band

utm(sc, lat, lon) ==
    LET srid == IF lat.m >= 0 THEN IntOf(<<3, 2, 6>> \o utm_band(lon))
                ELSE IntOf(<<3, 2, 7>> \o utm_band(lon))
    IN  sr(sc, srid, Authorities_EPSG)

\* the coordinates utm is called with
Latitudes == {Dec(k, 0) : k \in {-90, -45, -1, 0, 1, 45, 90}}
                 \cup {Dec(-1, -1), Dec(4555367, -5)}

Longitudes == {Dec(k, 0) : k \in (-180)..180}
                  \cup {Dec(-9414243, -5), Dec(-1740001, -4), Dec(1799999, -4)}

InitUtm ==
    /\ call \in [op : {"utm_args"}, lat : Latitudes, lon : Longitudes]
    /\ ret = NoRet
    /\ _sr_cache = EmptyDict
    /\ _proj_cache = EmptyDict
    /\ _transform_fn_cache = EmptyDict
    /\ _geometry_type_map = EmptyDict
    /\ heap = EmptyDict
    /\ raised = 0

UtmCall ==
    /\ call.op = "utm_args"
    /\ LET r == utm(_sr_cache, call.lat, call.lon)
       IN  /\ _sr_cache' = r.sc
           /\ ret' = Ok(r.val)
    /\ call' = [call EXCEPT !.op = "utm"]
    /\ UNCHANGED <<_proj_cache, _transform_fn_cache, _geometry_type_map,
                   heap, raised>>

NextUtm == UtmCall

SpecUtm == InitUtm /\ [][NextUtm]_vars

(***************************************************************************)
(* C6.  For every latitude in [-90, 90] and longitude in [-180, 180],      *)
(* utm(lat, lon) is the EPSG Sr with srid 32600 + z for lat >= 0 and       *)
(* 32700 + z otherwise, z = floor((lon + 180) / 6) mod 60 + 1; z is in     *)
(* 1..60, lon = 180 gives zone 1, and (45.55367, -94.14243) gives 32615.   *)
(***************************************************************************)
C6_UtmZone ==
    call.op = "utm" =>
        LET z == (FloorSixth(call.lon) % 60) + 1
        IN  /\ ret.kind = "ok"
            /\ ret.val.authority = "epsg"
            /\ ret.val.srid = (IF call.lat.m >= 0 THEN 32600 ELSE 32700) + z
            /\ z \in 1..60
            /\ ret.val.srid \in 32601..32660 \cup 32701..32760
            /\ call.lon = Dec(180, 0) => z = 1
            /\ (call.lat = Dec(4555367, -5) /\ call.lon = Dec(-9414243, -5))
                  => ret.val.srid = 32615

C6_Witness ==
    /\ call.op = "utm"
    /\ call.lon = Dec(180, 0)
    /\ call.lat = Dec(-1, -1)
    /\ ret = Ok(Sr(32701, "epsg"))

(***************************************************************************)
(* The registry on its own: sr, by_srid, Sr.proj and transform_fn called   *)
(* in any order with any arguments.                                        *)
(***************************************************************************)
MaxRaised == 2

\* the count of InvalidSrException raised so far, after a call returning res
Counted(res) ==
    IF res.kind = "raise" /\ res.exc = "InvalidSrException" /\ raised < MaxRaised
    THEN raised + 1
    ELSE raised

RegSrids == {4326, 666}

AuthStrings == {"epsg", "EPSG"}

AuthArgs == {Omitted, Authorities_EPSG} \cup {AuthStr(a) : a \in AuthStrings}

RegSrs == {Sr(srid, a) : srid \in RegSrids, a \in AuthStrings}

\* base.py:586-590 and multi.py:100-102: the map once the package is imported
update_geometry_type_map(map, shapely, shapeit) == Put(map, shapely, shapeit)

ImportedTypeMap ==
    LET base == [k \in {"Point", "LineString", "Polygon"} |->
                    CASE k = "Point" -> "SrPoint"
                      [] k = "LineString" -> "SrPolyline"
                      [] k = "Polygon" -> "SrPolygon"]
        m1 == update_geometry_type_map(base, "MultiPoint", "SrMultiPoint")
        m2 == update_geometry_type_map(m1, "MultiPolygon", "SrMultiPolygon")
    IN  update_geometry_type_map(m2, "MultiLineString", "SrMultiPolyline")

Init ==
    /\ call = NoCall
    /\ ret = NoRet
    /\ _sr_cache = EmptyDict
    /\ _proj_cache = EmptyDict
    /\ _transform_fn_cache = EmptyDict
    /\ _geometry_type_map = ImportedTypeMap
    /\ heap = EmptyDict
    /\ raised = 0

SrCall ==
    \E srid \in RegSrids, authority \in AuthArgs :
        LET r == sr(_sr_cache, srid, authority)
        IN  /\ call' = [op |-> "sr", srid |-> srid, authority |-> authority]
            /\ ret' = Ok(r.val)
            /\ _sr_cache' = r.sc
            /\ UNCHANGED <<_proj_cache, _transform_fn_cache,
                           _geometry_type_map, heap, raised>>

BySridCall ==
    \E srid \in RegSrids, authority \in AuthArgs, validate \in BOOLEAN :
        LET r == by_srid(_sr_cache, _proj_cache, srid, authority, validate)
        IN  /\ call' = [op |-> "by_srid", srid |-> srid,
                        authority |-> authority, validate |-> validate]
            /\ ret' = r.res
            /\ _sr_cache' = r.sc
            /\ _proj_cache' = r.pc
            /\ raised' = Counted(r.res)
            /\ UNCHANGED <<_transform_fn_cache, _geometry_type_map, heap>>

ProjCall ==
    \E s \in RegSrs :
        LET r == proj(_proj_cache, s)
        IN  /\ call' = [op |-> "proj", sr |-> s]
            /\ ret' = r.res
            /\ _proj_cache' = r.pc
            /\ raised' = Counted(r.res)
            /\ UNCHANGED <<_sr_cache, _transform_fn_cache,
                           _geometry_type_map, heap>>

TransformFnCall ==
    \E from_ \in RegSrs, to \in RegSrs :
        LET r == transform_fn(_transform_fn_cache, _proj_cache, from_, to)
        IN  /\ call' = [op |-> "transform_fn", from_ |-> from_, to |-> to]
            /\ ret' = r.res
            /\ _transform_fn_cache' = r.tc
            /\ _proj_cache' = r.pc
            /\ raised' = Counted(r.res)
            /\ UNCHANGED <<_sr_cache, _geometry_type_map, heap>>

NextSr == SrCall \/ BySridCall \/ ProjCall \/ TransformFnCall

SpecSr == Init /\ [][NextSr]_vars

C5_BySridEqualsSr ==
    /\ (call.op = "by_srid" /\ ret.kind = "ok")
          => ret.val = sr(_sr_cache, call.srid, call.authority).val
    /\ (call.op \in {"by_srid", "sr"} /\ ret.kind = "ok" /\ call.srid = 4326
        /\ call.authority = Omitted)
          => ret.val = WGS_84

(***************************************************************************)
(* The planar geometry engine (shapely), as far as the wrappers use it.    *)
(* A geometry is its structural kind and its coordinates, <<x, y>> pairs   *)
(* of whole numbers; a mapping is the GeoJSON-like form of it, whose       *)
(* coordinate sequences are tuples out of mapping() and lists out of JSON. *)
(***************************************************************************)
Geometry(type, coords) == [type |-> type, coords |-> coords]

IsGeometry(v) == "coords" \in DOMAIN v

\* shapely.geometry.mapping(geometry)
mapping(g) == [type |-> g.type, coordinates |-> g.coords, seq |-> "tuple"]

\* shapely.geometry.shape(mapping): tuples and lists read alike
shape(m) == Geometry(m.type, m.coordinates)

\* json.loads(json.dumps(exported)): tuples come back as lists
JsonRoundTrip(data) ==
    [data EXCEPT !.base_geometry = [@ EXCEPT !.seq = "list"]]

\* geometry.representative_point(): a point of the geometry
representative_point(g) == Geometry("Point", <<g.coords[1]>>)

\* The projection engine's arithmetic.  EPSG:4326 coordinates are
\* (lon, lat); every other CRS is a plane whose origin is shifted by an
\* amount of its own, so that coordinates read in the wrong CRS are wrong.
FalseOrigin(h) == IF h.init[2] = 4326 THEN 0 ELSE h.init[2] % 1000

Forward(h, ll) == <<ll[1] + FalseOrigin(h), ll[2] + FalseOrigin(h)>>

Inverse(h, xy) == <<xy[1] - FalseOrigin(h), xy[2] - FalseOrigin(h)>>

\* shapely.ops.transform(partial(pyproj.transform, p1, p2), geometry)
shapely_transform(fn, g) ==
    Geometry(g.type,
             [i \in 1..Len(g.coords) |-> Forward(fn.p2, Inverse(fn.p1, g.coords[i]))])

(***************************************************************************)
(* shapeit/types.py                                                        *)
(***************************************************************************)
BaseModule == <<"shapeit", "geometry", "base">>

MultiModule == <<"shapeit", "geometry", "multi">>

BaseClasses == {"SrGeometry", "SrPoint", "SrPolygon", "SrPolyline"}

MultiClasses == {"SrMultiPoint", "SrMultiPolygon", "SrMultiPolyline"}

\* obj.__class__.__module__
ModuleOf(cls) == IF cls \in MultiClasses THEN MultiModule ELSE BaseModule

\* the names a module binds to a class of the hierarchy (its own classes,
\* its aliases and what it imports), and the class each is bound to
Namespace(modname) ==
    IF modname = BaseModule
    THEN [n \in BaseClasses \cup {"SrLinestring"} |->
             IF n = "SrLinestring" THEN "SrPolyline" ELSE n]
    ELSE IF modname = MultiModule
    THEN [n \in MultiClasses \cup {"SrGeometry", "SrPolygon", "SrMultiLinestring"} |->
             IF n = "SrMultiLinestring" THEN "SrMultiPolyline" ELSE n]
    ELSE EmptyDict

IsModule(modname) == modname \in {BaseModule, MultiModule}

\* pyfqn(obj), the dotted name as its tokens
pyfqn(cls) == ModuleOf(cls) \o <<cls>>

\* pycls(fqn_)
pycls(fqn_) ==
    LET tokens == fqn_
        modname == SubSeq(tokens, 1, Len(tokens) - 1)
    IN  IF ~IsModule(modname)
        THEN Raise("ModuleNotFoundError", "No module named")
        ELSE IF tokens[Len(tokens)] \notin DOMAIN Namespace(modname)
        THEN Raise("AttributeError", "module has no attribute")
        ELSE Ok(Namespace(modname)[tokens[Len(tokens)]])

(***************************************************************************)
(* shapeit/geometry/base.py: SrGeometry.                                   *)
(***************************************************************************)
None == << >>

\* __init__ that stores base_geometry as it was given
New_as_given(cls, base_geometry, sr_) ==
    [cls |-> cls, base_geometry |-> base_geometry, sr |-> sr_, hash_ |-> None]

\* SrGeometry.__init__ (the variants' __init__ only pass on to it)
New(cls, base_geometry, sr_) ==
    [cls |-> cls,
     base_geometry |-> IF IsGeometry(base_geometry) THEN base_geometry
                       ELSE shape(base_geometry),
     sr |-> sr_,
     hash_ |-> None]

\* an Sr-or-int argument
SrArgSr(s) == [tag |-> "Sr", srid |-> s.srid, authority |-> s.authority]

SrArgInt(n) == [tag |-> "int", srid |-> n, authority |-> ""]

\* the caches and the type map a call works on
State ==
    [sc |-> _sr_cache, pc |-> _proj_cache, tc |-> _transform_fn_cache,
     map |-> _geometry_type_map]

\* _geometry_type_map.get(type(_base_geometry), SrGeometry)
Resolve(map, kind) == IF kind \in DOMAIN map THEN map[kind] ELSE "SrGeometry"

\* base_geometry if isinstance(base_geometry, (BaseGeometry,
\* BaseMultipartGeometry)) else shape(base_geometry)
AsGeometry(base_geometry) ==
    IF IsGeometry(base_geometry) THEN base_geometry ELSE shape(base_geometry)

\* sr if isinstance(sr, Sr) else by_srid(sr): the new caches and the Sr or
\* the error
SrOrBySrid(st, sr_) ==
    IF sr_.tag = "Sr"
    THEN [sc |-> st.sc, pc |-> st.pc, res |-> Ok(Sr(sr_.srid, sr_.authority))]
    ELSE by_srid(st.sc, st.pc, sr_.srid, Omitted, TRUE)

\* sr_geom_cls(base_geometry=_base_geometry, sr=...), r the resolved sr
Instantiate(st, sr_geom_cls, _base_geometry, r) ==
    IF r.res.kind = "raise"
    THEN [st |-> [st EXCEPT !.sc = r.sc, !.pc = r.pc], res |-> r.res]
    ELSE [st |-> [st EXCEPT !.sc = r.sc, !.pc = r.pc],
          res |-> [kind |-> "new",
                   obj |-> New(sr_geom_cls, _base_geometry, r.res.val)]]

\* sr_shape that always builds the base wrapper
sr_shape_base_only(st, base_geometry, sr_) ==
    Instantiate(st, "SrGeometry", AsGeometry(base_geometry), SrOrBySrid(st, sr_))

\* sr_shape(base_geometry, sr)
sr_shape(st, base_geometry, sr_) ==
    Instantiate(st, Resolve(st.map, AsGeometry(base_geometry).type),
                AsGeometry(base_geometry), SrOrBySrid(st, sr_))

\* SrGeometry.transform once sr is resolved (r): the receiver ("self"), a new
\* geometry ("new") or the error
transform_resolved(st, self, r) ==
    LET st1 == [st EXCEPT !.sc = r.sc, !.pc = r.pc]
    IN  IF r.res.kind = "raise" THEN [st |-> st1, res |-> r.res]
        ELSE IF r.res.val = self.sr THEN [st |-> st1, res |-> [kind |-> "self"]]
        ELSE LET f == transform_fn(st1.tc, st1.pc, self.sr, r.res.val)
                 st2 == [st1 EXCEPT !.tc = f.tc, !.pc = f.pc]
             IN  IF f.res.kind = "raise" THEN [st |-> st2, res |-> f.res]
                 ELSE sr_shape(st2,
                               shapely_transform(f.res.val, self.base_geometry),
                               SrArgSr(r.res.val))

\* SrGeometry.transform(sr)
transform(st, self, sr_) == transform_resolved(st, self, SrOrBySrid(st, sr_))

\* SrGeometry.as_wgs84()
as_wgs84(st, self) ==
    IF self.sr = WGS_84 THEN [st |-> st, res |-> [kind |-> "self"]]
    ELSE transform(st, self, SrArgSr(WGS_84))

\* a result of as_utm, with whether the geometry was first transformed to
\* WGS-84 (base.py:137)
ViaWgs84(t, via) == [st |-> t.st, res |-> t.res, via_wgs84 |-> via]

\* SrGeometry.as_utm once the geometry in WGS-84 is at hand (w)
as_utm_from(self, w, via) ==
    IF w.res.kind = "raise" THEN ViaWgs84(w, via)
    ELSE LET wgs84_geom == IF w.res.kind = "self" THEN self ELSE w.res.obj
             rp == representative_point(wgs84_geom.base_geometry)
             utm_sr == utm(w.st.sc, Dec(rp.coords[1][2], 0), Dec(rp.coords[1][1], 0))
             st1 == [w.st EXCEPT !.sc = utm_sr.sc]
         IN  IF utm_sr.val = self.sr
             THEN [st |-> st1, res |-> [kind |-> "self"], via_wgs84 |-> via]
             ELSE ViaWgs84(transform(st1, self, SrArgSr(utm_sr.val)), via)

\* SrGeometry.as_utm()
as_utm(st, self) ==
    as_utm_from(self,
                IF self.sr = WGS_84
                THEN [st |-> st, res |-> [kind |-> "self"]]
                ELSE transform(st, self, SrArgSr(WGS_84)),
                self.sr # WGS_84)

\* Sr._asdict(), the items in field order, and Sr(**items)
_asdict(s) == <<<<"srid", s.srid>>, <<"authority", s.authority>>>>

SrFromDict(d) ==
    Sr((CHOOSE kv \in {d[i] : i \in 1..Len(d)} : kv[1] = "srid")[2],
       (CHOOSE kv \in {d[i] : i \in 1..Len(d)} : kv[1] = "authority")[2])

\* SrGeometry.export()
export(self) ==
    [type_tag |-> pyfqn(self.cls),
     base_geometry |-> mapping(self.base_geometry),
     sr |-> _asdict(self.sr)]

\* load that builds the class it is called on, whatever the type tag
load_calling_class(cls, data) ==
    IF DOMAIN data = {} THEN [kind |-> "none"]
    ELSE [kind |-> "new",
          obj |-> New(cls, shape(data.base_geometry), SrFromDict(data.sr))]

\* load that falls back to the calling class whenever the tag gives no class
load_any_failure_falls_back(cls, data) ==
    IF DOMAIN data = {} THEN [kind |-> "none"]
    ELSE LET c == IF "type_tag" \in DOMAIN data THEN pycls(data.type_tag)
                  ELSE Ok(cls)
         IN  [kind |-> "new",
              obj |-> New(IF c.kind = "raise" THEN cls ELSE c.val,
                          shape(data.base_geometry), SrFromDict(data.sr))]

\* SrGeometry.load(data), a classmethod called on cls; data is a dict
load(cls, data) ==
    IF DOMAIN data = {} THEN [kind |-> "none"]
    ELSE LET c == IF "type_tag" \in DOMAIN data THEN pycls(data.type_tag)
                  ELSE Ok(cls)
         IN  IF c.kind = "raise" THEN c
             ELSE [kind |-> "new",
                   obj |-> New(c.val, shape(data.base_geometry),
                               SrFromDict(data.sr))]

\* int(hashlib.sha3_512(str(x).encode('UTF-8')).hexdigest(), 16): one
\* number per text
Digest(x) == [sha3_512 |-> x]

\* SrGeometry.__hash__(): the instance afterwards, the value, and what the
\* caller gets; reading the slot hash_ of an instance on which __init__ never
\* ran fails
hash(self) ==
    IF "hash_" \notin DOMAIN self
    THEN [self |-> self, res |-> Raise("AttributeError", "hash_")]
    ELSE IF self.hash_ = None
    THEN LET h == Digest(export(self))
         IN  [self |-> [self EXCEPT !.hash_ = <<h>>], val |-> h, res |-> Ok(h)]
    ELSE [self |-> self, val |-> self.hash_[1], res |-> Ok(self.hash_[1])]

\* geometry.equals(other): the same points, for the shapes of this model
equals(g, h) ==
    /\ (g.type \in {"Point", "MultiPoint"}) = (h.type \in {"Point", "MultiPoint"})
    /\ (g.type \in {"Polygon", "MultiPolygon"}) = (h.type \in {"Polygon", "MultiPolygon"})
    /\ {g.coords[i] : i \in 1..Len(g.coords)} = {h.coords[i] : i \in 1..Len(h.coords)}

\* bool(geometry): not empty
NonEmpty(g) == Len(g.coords) > 0

\* __eq__ that compares coordinate lists
eq_coordinate_lists(self, other) ==
    IF self.sr # other.sr THEN FALSE
    ELSE IF ~NonEmpty(self.base_geometry) THEN ~NonEmpty(other.base_geometry)
    ELSE self.base_geometry = other.base_geometry

\* SrGeometry.__eq__(other), other an SrGeometry
eq(self, other) ==
    IF self.sr # other.sr THEN FALSE
    ELSE IF ~NonEmpty(self.base_geometry) THEN ~NonEmpty(other.base_geometry)
    ELSE equals(self.base_geometry, other.base_geometry)

(***************************************************************************)
(* The instances.  Two references, a and b, are live at a time.  A         *)
(* constructing call binds a to the new instance and drops what was bound  *)
(* before; a call on an instance leaves a new result in the other          *)
(* reference, or returns the receiver itself.                              *)
(***************************************************************************)
Refs == {"a", "b"}

Other(r) == CHOOSE x \in Refs : x # r

P1 == <<-94, 45>>

P2 == <<-93, 46>>

P3 == <<-93, 45>>

Kinds == {"Point", "LineString", "Polygon", "MultiPoint", "MultiLineString",
          "MultiPolygon", "LinearRing"}

\* one raw geometry of each structural kind
RawGeometry(kind) ==
    Geometry(kind,
             CASE kind = "Point" -> <<P1>>
               [] kind \in {"LineString", "MultiLineString"} -> <<P1, P2>>
               [] kind = "MultiPoint" -> <<P2, P1>>
               [] OTHER -> <<P1, P2, P3, P1>>)

\* the heap once a constructing call has returned obj
Fresh(obj) == [x \in {"a"} |-> obj]

\* what a call leaves behind: the caches, and the heap
Leave(r, heap_) ==
    /\ _sr_cache' = r.st.sc
    /\ _proj_cache' = r.st.pc
    /\ _transform_fn_cache' = r.st.tc
    /\ raised' = Counted(r.res)
    /\ heap' = IF r.res.kind = "new" THEN heap_ ELSE heap

\* the value the caller holds: the receiver, the new instance, or the error
Returned(res, self, dst) ==
    IF res.kind = "self" THEN Ok(self)
    ELSE IF res.kind = "new" THEN Ok(dst)
    ELSE IF res.kind = "none" THEN [kind |-> "ok", val |-> "None"]
    ELSE res

SrShapeCallOn(kinds, srs) ==
    \E kind \in kinds, as_mapping \in BOOLEAN, sr_ \in srs :
        LET base_geometry == IF as_mapping
                             THEN [mapping(RawGeometry(kind)) EXCEPT !.seq = "list"]
                             ELSE RawGeometry(kind)
            r == sr_shape(State, base_geometry, sr_)
        IN  /\ call' = [op |-> "sr_shape", kind |-> kind,
                        as_mapping |-> as_mapping, sr |-> sr_]
            /\ ret' = Returned(r.res, "a", "a")
            /\ Leave(r, IF r.res.kind = "new" THEN Fresh(r.res.obj) ELSE heap)
            /\ UNCHANGED _geometry_type_map

ShapeSrArgs == {SrArgSr(WGS_84), SrArgInt(4326), SrArgInt(666)}

SrShapeCall == SrShapeCallOn(Kinds, ShapeSrArgs)

\* a variant's constructor, called with a geometry and the default sr
ConstructCall ==
    \E kind \in Kinds, cls \in {"SrGeometry", "SrPoint", "SrMultiPoint"} :
        /\ cls \in {"SrGeometry", Resolve(ImportedTypeMap, kind)}
        /\ call' = [op |-> "construct", cls |-> cls, kind |-> kind]
        /\ ret' = Ok("a")
        /\ heap' = Fresh(New(cls, RawGeometry(kind), WGS_84))
        /\ UNCHANGED <<_sr_cache, _proj_cache, _transform_fn_cache,
                       _geometry_type_map, raised>>

\* cls.load(data), data the receiver's export, as it is or through JSON, or
\* an empty dict
LoadCall ==
    \E self \in DOMAIN heap, cls \in {"SrGeometry", "SrPolygon"},
       source \in {"export", "json", "empty"} :
        LET data == CASE source = "export" -> export(heap[self])
                      [] source = "json" -> JsonRoundTrip(export(heap[self]))
                      [] OTHER -> EmptyDict
            res == load(cls, data)
        IN  /\ call' = [op |-> "load", self |-> self, cls |-> cls,
                        source |-> source]
            /\ ret' = Returned(res, self, Other(self))
            /\ heap' = IF res.kind = "new" THEN Put(heap, Other(self), res.obj)
                       ELSE heap
            /\ UNCHANGED <<_sr_cache, _proj_cache, _transform_fn_cache,
                           _geometry_type_map, raised>>

HashCall ==
    \E self \in DOMAIN heap :
        LET h == hash(heap[self])
        IN  /\ call' = [op |-> "hash", self |-> self]
            /\ ret' = h.res
            /\ heap' = Put(heap, self, h.self)
            /\ UNCHANGED <<_sr_cache, _proj_cache, _transform_fn_cache,
                           _geometry_type_map, raised>>

\* update_geometry_type_map(shapely, shapeit), as a new variant registers
UpdateGeometryTypeMapCall ==
    \E shapely \in {"LinearRing"}, shapeit \in {"SrPolyline"} :
        /\ call' = [op |-> "update_geometry_type_map", shapely |-> shapely,
                    shapeit |-> shapeit]
        /\ ret' = [kind |-> "ok", val |-> "None"]
        /\ _geometry_type_map' =
               update_geometry_type_map(_geometry_type_map, shapely, shapeit)
        /\ UNCHANGED <<_sr_cache, _proj_cache, _transform_fn_cache, heap, raised>>

NextShape ==
    \/ SrShapeCall
    \/ ConstructCall
    \/ LoadCall
    \/ HashCall
    \/ UpdateGeometryTypeMapCall

SpecShape == Init /\ [][NextShape]_vars

(***************************************************************************)
(* C1.  Round trip: for every instance x of every variant, loading x's     *)
(* export (as it is, or through JSON), on whichever class, gives an        *)
(* instance equal to x, with x's hash and of x's class.                    *)
(***************************************************************************)
C1_RoundTrip ==
    (call.op = "load" /\ call.source \in {"export", "json"})
        => /\ ret.kind = "ok"
           /\ ret.val \in DOMAIN heap
           /\ ret.val # call.self
           /\ eq(heap[ret.val], heap[call.self])
           /\ hash(heap[ret.val]).val = hash(heap[call.self]).val
           /\ heap[ret.val].cls = heap[call.self].cls

C1_Witness ==
    /\ call.op = "load"
    /\ call.source = "json"
    /\ call.cls = "SrPolygon"
    /\ heap[call.self].cls = "SrMultiPoint"
    /\ heap[call.self].hash_ # None
    /\ heap[call.self].sr = Sr(4326, "EPSG")
    /\ ret.kind = "ok"

(***************************************************************************)
(* C2.  sr_shape(raw geometry or mapping, sr) returns an instance of the   *)
(* wrapper class currently registered for the geometry's structural kind   *)
(* (the six registered at import; SrGeometry for an unregistered kind),    *)
(* whose srid is the supplied CRS, given as an Sr or as an integer.        *)
(***************************************************************************)
C2_SrShapeDispatch ==
    /\ ImportedTypeMap =
           [k \in Kinds \ {"LinearRing"} |->
               CASE k = "Point" -> "SrPoint"
                 [] k = "LineString" -> "SrPolyline"
                 [] k = "Polygon" -> "SrPolygon"
                 [] k = "MultiPoint" -> "SrMultiPoint"
                 [] k = "MultiLineString" -> "SrMultiPolyline"
                 [] k = "MultiPolygon" -> "SrMultiPolygon"]
    /\ call.op = "sr_shape" =>
          /\ (call.sr.tag = "Sr" \/ call.sr.srid \in EngineSrids) => ret.kind = "ok"
          /\ ret.kind = "ok" =>
                /\ heap[ret.val].cls =
                       (IF call.kind \in DOMAIN _geometry_type_map
                        THEN _geometry_type_map[call.kind] ELSE "SrGeometry")
                /\ heap[ret.val].sr.srid = call.sr.srid
                /\ heap[ret.val].base_geometry = RawGeometry(call.kind)

C2_Witness ==
    /\ call.op = "sr_shape"
    /\ call.kind = "MultiLineString"
    /\ call.as_mapping
    /\ call.sr = SrArgInt(4326)
    /\ ret.kind = "ok"
    /\ heap[ret.val].cls = "SrMultiPolyline"

C2_WitnessUnregistered ==
    /\ call.op = "sr_shape"
    /\ call.kind = "LinearRing"
    /\ ret.kind = "ok"
    /\ heap[ret.val].cls = "SrGeometry"

(***************************************************************************)
(* Reprojection: points and polygons built by sr_shape, from_lat_lon and   *)
(* from_coords, then transform, as_wgs84 and as_utm in any order.          *)
(***************************************************************************)
\* SrPoint.from_lat_lon(lat, lon)
from_lat_lon(lat, lon) == New("SrPoint", Geometry("Point", <<<<lon, lat>>>>), WGS_84)

\* SrPoint.from_coords(x, y, sr)
from_coords(x, y, sr_) ==
    New("SrPoint", Geometry("Point", <<<<x, y>>>>),
        IF sr_.tag = "Sr" THEN Sr(sr_.srid, sr_.authority)
        ELSE Sr(sr_.srid, Authorities_EPSG.value))

UTM_15N == Sr(32615, "epsg")

\* P1 in EPSG:32615 coordinates
P1_utm == Forward(Proj("epsg", 32615), P1)

FromLatLonCall ==
    \E ll \in {<<P1[2], P1[1]>>} :
        /\ call' = [op |-> "from_lat_lon", lat |-> ll[1], lon |-> ll[2]]
        /\ ret' = Ok("a")
        /\ heap' = Fresh(from_lat_lon(ll[1], ll[2]))
        /\ UNCHANGED <<_sr_cache, _proj_cache, _transform_fn_cache,
                       _geometry_type_map, raised>>

FromCoordsCall ==
    \E xy \in {P1_utm}, sr_ \in {SrArgInt(32615), SrArgSr(UTM_15N)} :
        /\ call' = [op |-> "from_coords", x |-> xy[1], y |-> xy[2], sr |-> sr_]
        /\ ret' = Ok("a")
        /\ heap' = Fresh(from_coords(xy[1], xy[2], sr_))
        /\ UNCHANGED <<_sr_cache, _proj_cache, _transform_fn_cache,
                       _geometry_type_map, raised>>

SrShapePlaneCall == SrShapeCallOn({"Point", "Polygon"}, ShapeSrArgs)

TransformTargets ==
    {SrArgInt(4326), SrArgSr(WGS_84), SrArgSr(UTM_15N), SrArgInt(666)}

TransformCall ==
    \E self \in DOMAIN heap, sr_ \in TransformTargets :
        LET r == transform(State, heap[self], sr_)
        IN  /\ call' = [op |-> "transform", self |-> self, sr |-> sr_]
            /\ ret' = Returned(r.res, self, Other(self))
            /\ Leave(r, IF r.res.kind = "new"
                        THEN Put(heap, Other(self), r.res.obj) ELSE heap)
            /\ UNCHANGED _geometry_type_map

AsWgs84Call ==
    \E self \in DOMAIN heap :
        LET r == as_wgs84(State, heap[self])
        IN  /\ call' = [op |-> "as_wgs84", self |-> self]
            /\ ret' = Returned(r.res, self, Other(self))
            /\ Leave(r, IF r.res.kind = "new"
                        THEN Put(heap, Other(self), r.res.obj) ELSE heap)
            /\ UNCHANGED _geometry_type_map

AsUtmCall ==
    \E self \in DOMAIN heap :
        LET r == as_utm(State, heap[self])
        IN  /\ call' = [op |-> "as_utm", self |-> self,
                        via_wgs84 |-> r.via_wgs84]
            /\ ret' = Returned(r.res, self, Other(self))
            /\ Leave(r, IF r.res.kind = "new"
                        THEN Put(heap, Other(self), r.res.obj) ELSE heap)
            /\ UNCHANGED _geometry_type_map

Next ==
    \/ FromLatLonCall
    \/ FromCoordsCall
    \/ SrShapePlaneCall
    \/ TransformCall
    \/ AsWgs84Call
    \/ AsUtmCall

Spec == Init /\ [][Next]_vars

\* the CRS an Sr-or-int argument denotes is the CRS s: an integer is an
\* EPSG code
Denotes(sr_, s) ==
    /\ sr_.srid = s.srid
    /\ Lower(IF sr_.tag = "Sr" THEN sr_.authority ELSE "epsg") = Lower(s.authority)

(***************************************************************************)
(* C3.  As claimed: transform(target) returns the receiver itself whenever *)
(* target denotes the CRS the geometry already has, given as an Sr or as   *)
(* the integer identifier of that CRS; in every other case it returns a    *)
(* new geometry whose sr is the resolved target.                           *)
(***************************************************************************)
C3_TransformToOwnCrsIsSelf ==
    call.op = "transform" =>
        /\ Denotes(call.sr, heap[call.self].sr) => ret = Ok(call.self)
        /\ (~Denotes(call.sr, heap[call.self].sr) /\ ret.kind = "ok")
              => /\ ret.val # call.self
                 /\ Denotes(call.sr, heap[ret.val].sr)

(***************************************************************************)
(* C7.  As claimed: as_utm() returns a geometry whose sr is utm(lat, lon)  *)
(* of the geometry's representative point in WGS-84 coordinates; it        *)
(* returns the receiver itself when the geometry's sr already equals that  *)
(* zone; and when the geometry is already geographic (EPSG:4326) no        *)
(* transform to WGS-84 is performed to find the representative point.      *)
(***************************************************************************)
C7_AsUtm ==
    (call.op = "as_utm" /\ ret.kind = "ok") =>
        LET self == heap[call.self]
            ll == Inverse(Proj(self.sr.authority, self.sr.srid),
                          representative_point(self.base_geometry).coords[1])
            zone == utm(EmptyDict, Dec(ll[2], 0), Dec(ll[1], 0)).val
        IN  /\ heap[ret.val].sr = zone
            /\ self.sr = zone => ret.val = call.self
            /\ Denotes(SrArgInt(4326), self.sr) => ~call.via_wgs84

(***************************************************************************)
(* The metric projections.  The module the package imports them from       *)
(* (shapeit.srs: MetricProjections, US_NAEA, WEB_MERCATOR and              *)
(* UnsupportedMetricProjectionException) is not among the sources; they    *)
(* are taken from the specification: EPSG:2163 and EPSG:3857, and an       *)
(* enumeration of three preferences.                                       *)
(***************************************************************************)
US_NAEA == Sr(2163, Authorities_EPSG.value)

WEB_MERCATOR == Sr(3857, Authorities_EPSG.value)

MetricProjections == {"US_NAEA", "UTM", "WEB_MERCATOR"}

\* a member added to the enumeration after as_metric was written
\* (base.py:211-212)
LaterMetricProjection == "LATER_MEMBER"

UnsupportedMetricProjectionException(name) ==
    Raise("UnsupportedMetricProjectionException", name)

\* SrGeometry.as_usm()
as_usm(st, self) ==
    IF self.sr = US_NAEA THEN [st |-> st, res |-> [kind |-> "self"]]
    ELSE transform(st, self, SrArgSr(US_NAEA))

\* SrGeometry.as_wm()
as_wm(st, self) ==
    IF self.sr = WEB_MERCATOR THEN [st |-> st, res |-> [kind |-> "self"]]
    ELSE transform(st, self, SrArgSr(WEB_MERCATOR))

\* the caches and the result of a call, without what else it reports
StRes(r) == [st |-> r.st, res |-> r.res]

\* as_metric that falls back to UTM for a preference it does not know
as_metric_utm_by_default(st, self, metric_projection) ==
    IF metric_projection = "US_NAEA" THEN as_usm(st, self)
    ELSE IF metric_projection = "WEB_MERCATOR" THEN as_wm(st, self)
    ELSE StRes(as_utm(st, self))

\* SrGeometry.as_metric(metric_projection)
as_metric(st, self, metric_projection) ==
    IF metric_projection = "US_NAEA" THEN as_usm(st, self)
    ELSE IF metric_projection = "UTM" THEN StRes(as_utm(st, self))
    ELSE IF metric_projection = "WEB_MERCATOR" THEN as_wm(st, self)
    ELSE [st |-> st, res |-> UnsupportedMetricProjectionException(metric_projection)]

(***************************************************************************)
(* More of the planar geometry engine: measures, buffers and points along  *)
(* a line.  Lengths are those of lines whose segments have whole lengths;  *)
(* a buffer is drawn with one segment per quarter circle.                  *)
(***************************************************************************)
\* |n|
Magnitude(n) == IF n < 0 THEN -n ELSE n

\* the length of the segment from p to q, a whole number
SegmentLength(p, q) ==
    IRoot((q[1] - p[1]) * (q[1] - p[1]) + (q[2] - p[2]) * (q[2] - p[2]), 2)

\* whether every segment of a line has a whole length
WholeSegments(coords) ==
    \A i \in 1..(Len(coords) - 1) :
        IsPower((coords[i + 1][1] - coords[i][1]) * (coords[i + 1][1] - coords[i][1])
                + (coords[i + 1][2] - coords[i][2]) * (coords[i + 1][2] - coords[i][2]), 2)

RECURSIVE PathLength(_, _)
PathLength(coords, i) ==
    IF i >= Len(coords) THEN 0
    ELSE SegmentLength(coords[i], coords[i + 1]) + PathLength(coords, i + 1)

\* geometry.length of a line
geometry_length(g) == Dec(PathLength(g.coords, 1), 0)

\* the point at distance d along the line, from its i-th vertex on
RECURSIVE PointAlong(_, _, _)
PointAlong(coords, i, d) ==
    LET p == coords[i]
        q == coords[i + 1]
        l == SegmentLength(p, q)
    IN  IF d <= l \/ i + 1 = Len(coords)
        THEN <<p[1] + ((q[1] - p[1]) * d) \div l, p[2] + ((q[2] - p[2]) * d) \div l>>
        ELSE PointAlong(coords, i + 1, d - l)

\* geometry.interpolate(0.5, normalized=True) of a line of even length
interpolate_half(g) ==
    Geometry("Point", <<PointAlong(g.coords, 1, PathLength(g.coords, 1) \div 2)>>)

\* the rings of a polygon or multi-polygon: each ends where it began
RECURSIVE Rings(_, _)
Rings(coords, from) ==
    IF from > Len(coords) THEN << >>
    ELSE LET closes == {j \in (from + 1)..Len(coords) : coords[j] = coords[from]}
             last == IF closes = {} THEN Len(coords)
                     ELSE CHOOSE j \in closes : \A k \in closes : j <= k
         IN  <<SubSeq(coords, from, last)>> \o Rings(coords, last + 1)

\* twice the signed area of a ring (the shoelace sum)
RECURSIVE Shoelace(_, _)
Shoelace(ring, i) ==
    IF i >= Len(ring) THEN 0
    ELSE ring[i][1] * ring[i + 1][2] - ring[i + 1][1] * ring[i][2]
         + Shoelace(ring, i + 1)

RECURSIVE TwiceArea(_, _)
TwiceArea(rings, k) ==
    IF k > Len(rings) THEN 0
    ELSE Magnitude(Shoelace(rings[k], 1)) + TwiceArea(rings, k + 1)

\* geometry.area
geometry_area(g) ==
    IF g.type \in {"Polygon", "MultiPolygon"}
    THEN Dec(5 * TwiceArea(Rings(g.coords, 1), 1), -1)
    ELSE Dec(0, 0)

\* a whole quantity as an integer
Whole(a) == a.m * IPow(10, a.e)

\* the buffer of one point: the ring through the four points at distance d
\* on the axes
PointBuffer(p, d) ==
    <<<<p[1] + d, p[2]>>, <<p[1], p[2] - d>>, <<p[1] - d, p[2]>>,
      <<p[1], p[2] + d>>, <<p[1] + d, p[2]>>>>

RECURSIVE PointBuffers(_, _, _)
PointBuffers(coords, i, d) ==
    IF i > Len(coords) THEN << >>
    ELSE PointBuffer(coords[i], d) \o PointBuffers(coords, i + 1, d)

\* the geometries and distances the buffer is drawn for: points further
\* apart than their buffers reach, a whole distance, one segment per
\* quarter circle
Bufferable(g, distance, resolution) ==
    /\ resolution = 1
    /\ g.type \in {"Point", "MultiPoint"}
    /\ distance.e >= 0
    /\ distance.m > 0
    /\ \A i, j \in 1..Len(g.coords) :
          i < j => Magnitude(g.coords[i][1] - g.coords[j][1])
                   + Magnitude(g.coords[i][2] - g.coords[j][2]) > 2 * Whole(distance)

\* geometry.buffer(distance=..., resolution=...): a polygon around a point,
\* a multi-polygon around points apart
geometry_buffer(g, distance, resolution) ==
    Geometry(IF Len(g.coords) = 1 THEN "Polygon" ELSE "MultiPolygon",
             PointBuffers(g.coords, 1, Whole(distance)))

(***************************************************************************)
(* shapeit/geometry/base.py: buffer, length, area and location.            *)
(***************************************************************************)
\* the classes with a length (SrGeometry1D) and with an area (SrGeometry2D)
SrGeometry1D == {"SrPolyline", "SrMultiPolyline"}

SrGeometry2D == {"SrPolygon", "SrMultiPolygon"}

\* keyword arguments of a call: a function from the names given to values
Kwargs(names, units, metric_projection) ==
    [k \in names |-> IF k = "units" THEN units ELSE metric_projection]

\* a keyword argument, or the default of the parameter
Arg(kwargs, name, default) ==
    IF name \in DOMAIN kwargs THEN kwargs[name] ELSE default

\* binding keyword arguments to a signature
UnexpectedKeyword(kwargs, parameters) == (DOMAIN kwargs) \ parameters # {}

\* the instance a call returned: the receiver or the new one
Instance(self, res) == IF res.kind = "self" THEN self ELSE res.obj

\* SrGeometry.buffer once as_metric has returned m and meters the distance
buffer_from(self, m, distance, resolution) ==
    IF m.res.kind = "raise" THEN [st |-> m.st, res |-> m.res, buffered |-> None]
    ELSE IF distance.kind = "raise"
    THEN [st |-> m.st, res |-> distance, buffered |-> None]
    ELSE LET base_utm == Instance(self, m.res)
             base_utm_buf == geometry_buffer(base_utm.base_geometry,
                                             distance.val, resolution)
             sr_geom_buf == New("SrPolygon", base_utm_buf, base_utm.sr)
             t == transform(m.st, sr_geom_buf, SrArgSr(self.sr))
         IN  [st |-> t.st,
              res |-> IF t.res.kind = "self"
                      THEN [kind |-> "new", obj |-> sr_geom_buf]
                      ELSE t.res,
              buffered |-> [geometry |-> base_utm.base_geometry,
                            sr |-> base_utm.sr,
                            distance |-> distance.val]]

\* SrGeometry.buffer(n, units, resolution, metric_projection); buffered
\* tells what the engine buffered, in which CRS and by what distance
buffer(st, self, n, units, resolution, metric_projection) ==
    buffer_from(self, as_metric(st, self, metric_projection),
                meters(n, units, 1), resolution)

\* SrGeometry1D.length once as_metric has returned m
length_from(self, m, units) ==
    IF m.res.kind = "raise" THEN [st |-> m.st, res |-> m.res]
    ELSE [st |-> m.st,
          res |-> convert(geometry_length(Instance(self, m.res).base_geometry),
                          "METERS", units, 1)]

\* SrGeometry1D.length(units, metric_projection), called with keyword
\* arguments
length(st, self, kwargs) ==
    IF self.cls \notin SrGeometry1D
    THEN [st |-> st, res |-> Raise("AttributeError", "length")]
    ELSE IF UnexpectedKeyword(kwargs, {"units", "metric_projection"})
    THEN [st |-> st, res |-> Raise("TypeError", "unexpected keyword argument")]
    ELSE length_from(self,
                     as_metric(st, self, Arg(kwargs, "metric_projection", "UTM")),
                     Arg(kwargs, "units", "METERS"))

\* SrGeometry2D.area once as_utm has returned u, with the dimension the
\* conversion is made at
area_from(self, u, units, dimension) ==
    IF u.res.kind = "raise" THEN [st |-> u.st, res |-> u.res]
    ELSE [st |-> u.st,
          res |-> convert(geometry_area(Instance(self, u.res).base_geometry),
                          "METERS", units, dimension)]

\* SrGeometry2D.area(units), called with keyword arguments
area(st, self, kwargs) ==
    IF self.cls \notin SrGeometry2D
    THEN [st |-> st, res |-> Raise("AttributeError", "area")]
    ELSE IF UnexpectedKeyword(kwargs, {"units"})
    THEN [st |-> st, res |-> Raise("TypeError", "unexpected keyword argument")]
    ELSE area_from(self, StRes(as_utm(st, self)), Arg(kwargs, "units", "METERS"), 1)

\* self.base_geometry.representative_point, the method itself, not a call
\* of it
BoundMethod(name) == [bound_method |-> name]

\* a variant's constructor on any argument: shape() of what is neither a
\* geometry nor a mapping fails
Construct(cls, base_geometry, sr_) ==
    IF "bound_method" \in DOMAIN base_geometry
    THEN Raise("AttributeError", "'method' object has no attribute 'get'")
    ELSE [kind |-> "new", obj |-> New(cls, base_geometry, sr_)]

\* location(): SrPoint.location, SrPolyline.location, and SrGeometry.location
\* for the classes that do not override it
location(self) ==
    IF self.cls = "SrPoint" THEN [kind |-> "self"]
    ELSE IF self.cls = "SrPolyline"
    THEN Construct("SrPoint", interpolate_half(self.base_geometry), self.sr)
    ELSE Construct("SrPoint", BoundMethod("representative_point"), self.sr)

(***************************************************************************)
(* Measuring: geometries given in the coordinates of their CRS, then       *)
(* as_metric, buffer, area, length and location in any order.              *)
(***************************************************************************)
\* shapes in (lon, lat): a point, a triangle, a line of length 6 and two
\* points far apart
MetricShapes ==
    {Geometry("Point", <<P1>>),
     Geometry("Polygon", <<P1, P2, P3, P1>>),
     Geometry("LineString", <<P1, <<-94, 47>>, <<-90, 47>>>>),
     Geometry("MultiPoint", <<P1, <<-80, 45>>>>)}

MetricSrArgs ==
    {SrArgSr(WGS_84), SrArgInt(32615), SrArgSr(UTM_15N), SrArgSr(US_NAEA),
     SrArgSr(WEB_MERCATOR)}

\* the geometry g, given in (lon, lat), in the coordinates of the CRS
InCrs(g, srid) ==
    Geometry(g.type,
             [i \in 1..Len(g.coords) |-> Forward(Proj("epsg", srid), g.coords[i])])

\* the distances a buffer is asked for: 5 m, also as 0.005 km
Distances == {<<Dec(5, 0), "METERS">>, <<Dec(5, -3), "KILOMETERS">>}

Resolutions == {1}

KwargSets ==
    {Kwargs(names, units, metric_projection) :
        names \in SUBSET {"units", "metric_projection"},
        units \in Units, metric_projection \in MetricProjections}

\* sr_shape(base_geometry, sr) with the coordinates of that CRS: the one
\* geometry a run measures
SrShapeInCrsCall ==
    \E g \in MetricShapes, sr_ \in MetricSrArgs :
        LET r == sr_shape(State, InCrs(g, sr_.srid), sr_)
        IN  /\ heap = EmptyDict
            /\ call' = [op |-> "sr_shape", kind |-> g.type,
                        as_mapping |-> FALSE, sr |-> sr_]
            /\ ret' = Returned(r.res, "a", "a")
            /\ Leave(r, IF r.res.kind = "new" THEN Fresh(r.res.obj) ELSE heap)
            /\ UNCHANGED _geometry_type_map

\* a reference no instance is bound to yet, for the result of a call
Free(r) == r \notin DOMAIN heap

AsMetricCall ==
    \E self \in DOMAIN heap,
       metric_projection \in MetricProjections \cup {LaterMetricProjection} :
        LET r == as_metric(State, heap[self], metric_projection)
        IN  /\ Free(Other(self))
            /\ call' = [op |-> "as_metric", self |-> self,
                        metric_projection |-> metric_projection]
            /\ ret' = Returned(r.res, self, Other(self))
            /\ Leave(r, IF r.res.kind = "new"
                        THEN Put(heap, Other(self), r.res.obj) ELSE heap)
            /\ UNCHANGED _geometry_type_map

BufferCall ==
    \E self \in DOMAIN heap, d \in Distances, resolution \in Resolutions,
       metric_projection \in MetricProjections :
        /\ Free(Other(self))
        /\ Bufferable(heap[self].base_geometry, meters(d[1], d[2], 1).val, resolution)
        /\ LET r == buffer(State, heap[self], d[1], d[2], resolution,
                           metric_projection)
           IN  /\ call' = [op |-> "buffer", self |-> self, n |-> d[1],
                           units |-> d[2], resolution |-> resolution,
                           metric_projection |-> metric_projection,
                           buffered |-> r.buffered]
               /\ ret' = Returned(r.res, self, Other(self))
               /\ Leave(r, IF r.res.kind = "new"
                           THEN Put(heap, Other(self), r.res.obj) ELSE heap)
               /\ UNCHANGED _geometry_type_map

AreaCall ==
    \E self \in DOMAIN heap, kwargs \in KwargSets :
        /\ heap[self].cls \in SrGeometry2D
        /\ LET r == area(State, heap[self], kwargs)
           IN  /\ call' = [op |-> "area", self |-> self, kwargs |-> kwargs]
               /\ ret' = r.res
               /\ Leave(r, heap)
               /\ UNCHANGED _geometry_type_map

LengthCall ==
    \E self \in DOMAIN heap, kwargs \in KwargSets :
        /\ heap[self].cls \in SrGeometry1D
        /\ LET r == length(State, heap[self], kwargs)
           IN  /\ call' = [op |-> "length", self |-> self, kwargs |-> kwargs]
               /\ ret' = r.res
               /\ Leave(r, heap)
               /\ UNCHANGED _geometry_type_map

LocationCall ==
    \E self \in DOMAIN heap :
        LET res == location(heap[self])
        IN  /\ Free(Other(self))
            /\ call' = [op |-> "location", self |-> self]
            /\ ret' = Returned(res, self, Other(self))
            /\ heap' = IF res.kind = "new" THEN Put(heap, Other(self), res.obj)
                       ELSE heap
            /\ UNCHANGED <<_sr_cache, _proj_cache, _transform_fn_cache,
                           _geometry_type_map, raised>>

NextMetric ==
    \/ SrShapeInCrsCall
    \/ AsMetricCall
    \/ BufferCall
    \/ AreaCall
    \/ LengthCall
    \/ LocationCall

SpecMetric == Init /\ [][NextMetric]_vars

\* round(a, 3): to three decimals, halves to the even neighbour
Round3(a) ==
    IF a.e >= -3 THEN a
    ELSE LET scale == IPow(10, -3 - a.e)
             q == a.m \div scale
             twice == 2 * (a.m % scale)
             up == twice > scale \/ (twice = scale /\ q % 2 = 1)
         IN  Dec(IF up THEN q + 1 ELSE q, -3)

\* the geometry of an instance once it is in its UTM zone
InUtm(self) == Instance(self, as_utm(State, self).res).base_geometry

(***************************************************************************)
(* C11.  As claimed: area(units) of a 2-D geometry whose UTM area is A     *)
(* square meters is A converted with dimension 2 (A * 1e-6 for KILOMETERS, *)
(* A for METERS); length(units, preference) of a 1-D geometry is the       *)
(* metric length converted with dimension 1.                               *)
(***************************************************************************)
C11_AreaAtDimensionTwo ==
    /\ (call.op = "area" /\ DOMAIN call.kwargs \subseteq {"units"})
          => LET A == geometry_area(InUtm(heap[call.self]))
                 units == Arg(call.kwargs, "units", "METERS")
             IN  /\ ret = Ok(DMul(A, DPow(DDiv(_meter_conversions["METERS"],
                                               _meter_conversions[units]), 2)))
                 /\ units = "KILOMETERS" => ret = Ok(DMul(A, Dec(1, -6)))
                 /\ units = "METERS" => ret = Ok(A)
    /\ call.op = "length"
          => LET _utm == Instance(heap[call.self],
                                  as_metric(State, heap[call.self],
                                            Arg(call.kwargs, "metric_projection",
                                                "UTM")).res)
                 units == Arg(call.kwargs, "units", "METERS")
             IN  ret = Ok(DMul(geometry_length(_utm.base_geometry),
                               DDiv(_meter_conversions["METERS"],
                                    _meter_conversions[units])))

(***************************************************************************)
(* C12.  As claimed: for each metric projection preference p, buffering    *)
(* the WGS-84 point by 5 meters with metric_projection = p and then asking *)
(* the returned polygon for area(metric_projection = p) completes without  *)
(* error and yields the area of the 5 m buffer rounded to 3 decimals, the  *)
(* same for the three preferences.                                         *)
(***************************************************************************)
C12_BufferThenArea ==
    \A p \in MetricProjections :
        (/\ call.op = "area"
         /\ call.self = "b"
         /\ call.kwargs = Kwargs({"metric_projection"}, "METERS", p)
         /\ heap["a"] = from_lat_lon(P1[2], P1[1])
         /\ heap["b"] = buffer(State, heap["a"], Dec(5, 0), "METERS", 1, p).res.obj)
            => /\ ret.kind = "ok"
               /\ Round3(ret.val) =
                      Round3(geometry_area(geometry_buffer(heap["a"].base_geometry,
                                                           Dec(5, 0), 1)))

\* what buffer had the engine buffer, as the claim has it: the receiver in
\* the preferred metric CRS, by the distance in meters
BufferedInMetric(g, n, units, metric_projection) ==
    LET _metric == Instance(g, as_metric(State, g, metric_projection).res)
    IN  [geometry |-> _metric.base_geometry,
         sr |-> _metric.sr,
         distance |-> DMul(n, _meter_conversions[units])]

(***************************************************************************)
(* C14.  As claimed: every buffer call with valid arguments returns an     *)
(* SrPolygon whose sr equals the receiver's, whether or not the receiver   *)
(* had to be reprojected; the engine buffers the receiver's geometry in    *)
(* the metric CRS by the distance in meters (dimension 1); the receiver    *)
(* is left unchanged.                                                      *)
(***************************************************************************)
C14_BufferReturnsSrPolygon ==
    [][(call'.op = "buffer" /\ ret'.kind = "ok")
          => LET g == heap[call'.self]
             IN  /\ heap'[ret'.val].cls = "SrPolygon"
                 /\ heap'[ret'.val].sr = g.sr
                 /\ call'.buffered = BufferedInMetric(g, call'.n, call'.units,
                                                      call'.metric_projection)
                 /\ heap'[call'.self] = g]_vars

\* two Sr values name the same CRS: the authority's case does not matter
\* to the projection engine
SameCrs(a, b) == a.srid = b.srid /\ Lower(a.authority) = Lower(b.authority)

\* the CRS as_metric puts g in for a preference
PreferredCrs(g, metric_projection) ==
    Instance(g, as_metric(State, g, metric_projection).res).sr

(***************************************************************************)
(* C15.  As claimed: as_metric(preference) returns what as_usm(), as_utm() *)
(* or as_wm() returns for the three known preferences, and that is the     *)
(* receiver itself when the receiver is already in the preferred CRS; for  *)
(* any other preference it fails with UnsupportedMetricProjectionException *)
(* (not InvalidSrException) and leaves the caches and the instances as     *)
(* they were.                                                              *)
(***************************************************************************)
C15_AsMetric ==
    [][call'.op = "as_metric"
          => LET g == heap[call'.self]
                 pref == call'.metric_projection
                 dst == Other(call'.self)
             IN  /\ pref = "US_NAEA"
                       => ret' = Returned(as_usm(State, g).res, call'.self, dst)
                 /\ pref = "UTM"
                       => ret' = Returned(as_utm(State, g).res, call'.self, dst)
                 /\ pref = "WEB_MERCATOR"
                       => ret' = Returned(as_wm(State, g).res, call'.self, dst)
                 /\ (pref \in MetricProjections
                        /\ SameCrs(g.sr, PreferredCrs(g, pref)))
                       => ret' = Ok(call'.self) /\ heap' = heap
                 /\ pref \notin MetricProjections
                       => /\ ret'.kind = "raise"
                          /\ ret'.exc = "UnsupportedMetricProjectionException"
                          /\ ret'.exc # "InvalidSrException"
                          /\ UNCHANGED <<heap, _sr_cache, _proj_cache,
                                         _transform_fn_cache>>]_vars

\* the instance a location() call gave back
Located(self, res) == Instance(self, res)

(***************************************************************************)
(* C16.  As claimed: location() succeeds on every variant and returns an   *)
(* SrPoint carrying the receiver's sr: the receiver itself for an SrPoint, *)
(* the point half-way along the line for an SrPolyline, the engine's       *)
(* representative point of the base geometry for every other variant; a    *)
(* second call on the same instance gives an equal result.                 *)
(***************************************************************************)
C16_LocationSucceeds ==
    call.op = "location"
       => LET self == heap[call.self]
          IN  /\ ret.kind = "ok"
              /\ heap[ret.val].cls = "SrPoint"
              /\ heap[ret.val].sr = self.sr
              /\ self.cls = "SrPoint" => ret.val = call.self
              /\ self.cls = "SrPolyline"
                    => heap[ret.val].base_geometry =
                           interpolate_half(self.base_geometry)
              /\ self.cls \notin {"SrPoint", "SrPolyline"}
                    => heap[ret.val].base_geometry =
                           representative_point(self.base_geometry)
              /\ eq(Located(self, location(self)), heap[ret.val])

(***************************************************************************)
(* Instances as values: copying, saving and restoring state, comparing,    *)
(* loading from data whose type tag is missing or wrong.                   *)
(***************************************************************************)
\* SrGeometry.__copy__()
__copy__(self) == New(self.cls, self.base_geometry, self.sr)

\* SrGeometry.__getstate__()
__getstate__(self) ==
    [_base_geometry |-> mapping(self.base_geometry), _sr |-> self.sr]

\* SrGeometry.__setstate__(state): the instance afterwards; the slot hash_
\* stays as it was
__setstate__(self, state) ==
    [f \in (DOMAIN self) \cup {"base_geometry", "sr"} |->
        IF f = "base_geometry" THEN shape(state._base_geometry)
        ELSE IF f = "sr" THEN state._sr
        ELSE self[f]]

\* cls.__new__(cls): an instance none of whose slots is set yet
__new__(cls) == [cls |-> cls]

\* copy.deepcopy(x), pickle.loads(pickle.dumps(x)): a new instance restored
\* from the saved state, on which __init__ does not run
deepcopy(self) == __setstate__(__new__(self.cls), __getstate__(self))

\* what an instance is compared with when it is no instance: None, an
\* object(), an object with an attribute _sr and nothing else
Foreign ==
    [none |-> None,
     object |-> [class |-> "object"],
     sr_only |-> [class |-> "object", sr |-> WGS_84]]

\* getattr(other, '_sr') and getattr(other, '_base_geometry') both succeed
HasFields(other) == {"sr", "base_geometry"} \subseteq DOMAIN other

\* SrGeometry.__eq__(other), other anything
__eq__(self, other) ==
    IF DOMAIN other = {} THEN FALSE
    ELSE IF ~HasFields(other) THEN FALSE
    ELSE eq(self, other)

\* SrGeometry.__ne__(other)
__ne__(self, other) == ~__eq__(self, other)

\* the geometries instances are built from: a point, two orders of a
\* multi-point, a ring from two of its vertices, and the empty ones
ValueGeometries ==
    {Geometry("Point", <<P1>>), Geometry("Point", << >>),
     Geometry("MultiPoint", <<P2, P1>>), Geometry("MultiPoint", <<P1, P2>>),
     Geometry("Polygon", <<P1, P2, P3, P1>>),
     Geometry("Polygon", <<P2, P3, P1, P2>>),
     Geometry("Polygon", << >>)}

\* the first reference no instance is bound to
FirstFree == IF "a" \in DOMAIN heap THEN "b" ELSE "a"

\* cls(base_geometry) and cls(base_geometry, sr), base_geometry a geometry
\* or its mapping
ConstructVariantCall ==
    \E g \in ValueGeometries, cls \in BaseClasses \cup MultiClasses,
       as_mapping \in BOOLEAN, sr_given \in BOOLEAN, sr_ \in {WGS_84, UTM_15N} :
        LET res == Construct(cls, IF as_mapping THEN mapping(g) ELSE g,
                             IF sr_given THEN sr_ ELSE WGS_84)
        IN  /\ Free("b")
            /\ cls \in {"SrGeometry", Resolve(ImportedTypeMap, g.type)}
            /\ sr_given \/ sr_ = WGS_84
            /\ call' = [op |-> "construct", cls |-> cls, as_mapping |-> as_mapping,
                        sr_given |-> sr_given]
            /\ ret' = Returned(res, FirstFree, FirstFree)
            /\ heap' = Put(heap, FirstFree, res.obj)
            /\ UNCHANGED <<_sr_cache, _proj_cache, _transform_fn_cache,
                           _geometry_type_map, raised>>

\* type tags that resolve to nothing: a module that does not exist, a name
\* the module does not have
UnknownModuleTag == <<"shapeit", "geometry", "curves", "SrArc">>

UnknownClassTag == BaseModule \o <<"SrArc">>

\* the receiver's export with its type tag kept, removed or replaced
Tagged(data, tag) ==
    CASE tag = "kept" -> data
      [] tag = "missing" -> [k \in (DOMAIN data) \ {"type_tag"} |-> data[k]]
      [] tag = "unknown_module" -> [data EXCEPT !.type_tag = UnknownModuleTag]
      [] tag = "unknown_class" -> [data EXCEPT !.type_tag = UnknownClassTag]

\* cls.load(data): data None, an empty dict, or an export whose type tag is
\* as it was, missing, or unresolvable
LoadTaggedCall ==
    \E self \in DOMAIN heap, cls \in {"SrGeometry", "SrPolygon"},
       source \in {"none", "empty", "export"},
       tag \in {"kept", "missing", "unknown_module", "unknown_class"} :
        LET data == CASE source = "none" -> None
                      [] source = "empty" -> EmptyDict
                      [] OTHER -> Tagged(export(heap[self]), tag)
            res == load(cls, data)
        IN  /\ Free(Other(self))
            /\ source = "export" \/ tag = "kept"
            /\ call' = [op |-> "load", self |-> self, cls |-> cls,
                        source |-> source, tag |-> tag]
            /\ ret' = Returned(res, self, Other(self))
            /\ heap' = IF res.kind = "new" THEN Put(heap, Other(self), res.obj)
                       ELSE heap
            /\ UNCHANGED <<_sr_cache, _proj_cache, _transform_fn_cache,
                           _geometry_type_map, raised>>

\* copy.copy(self)
CopyCall ==
    \E self \in DOMAIN heap :
        /\ Free(Other(self))
        /\ call' = [op |-> "copy", self |-> self]
        /\ ret' = Ok(Other(self))
        /\ heap' = Put(heap, Other(self), __copy__(heap[self]))
        /\ UNCHANGED <<_sr_cache, _proj_cache, _transform_fn_cache,
                       _geometry_type_map, raised>>

\* copy.deepcopy(self), or self pickled and unpickled
DeepcopyCall ==
    \E self \in DOMAIN heap :
        /\ Free(Other(self))
        /\ call' = [op |-> "deepcopy", self |-> self]
        /\ ret' = Ok(Other(self))
        /\ heap' = Put(heap, Other(self), deepcopy(heap[self]))
        /\ UNCHANGED <<_sr_cache, _proj_cache, _transform_fn_cache,
                       _geometry_type_map, raised>>

\* self.__setstate__(other.__getstate__())
SetStateCall ==
    \E self \in DOMAIN heap, other \in DOMAIN heap :
        /\ call' = [op |-> "__setstate__", self |-> self, other |-> other]
        /\ ret' = [kind |-> "ok", val |-> "None"]
        /\ heap' = Put(heap, self, __setstate__(heap[self], __getstate__(heap[other])))
        /\ UNCHANGED <<_sr_cache, _proj_cache, _transform_fn_cache,
                       _geometry_type_map, raised>>

\* self.export()
ExportCall ==
    \E self \in DOMAIN heap :
        /\ call' = [op |-> "export", self |-> self]
        /\ ret' = Ok(export(heap[self]))
        /\ UNCHANGED <<_sr_cache, _proj_cache, _transform_fn_cache,
                       _geometry_type_map, raised, heap>>

\* what a comparison's right-hand side names: an instance or a foreign value
Operand(other) == IF other \in DOMAIN heap THEN heap[other] ELSE Foreign[other]

\* self == other
EqCall ==
    \E self \in DOMAIN heap, other \in (DOMAIN heap) \cup (DOMAIN Foreign) :
        /\ call' = [op |-> "__eq__", self |-> self, other |-> other]
        /\ ret' = Ok(__eq__(heap[self], Operand(other)))
        /\ UNCHANGED <<_sr_cache, _proj_cache, _transform_fn_cache,
                       _geometry_type_map, raised, heap>>

\* self != other
NeCall ==
    \E self \in DOMAIN heap, other \in (DOMAIN heap) \cup (DOMAIN Foreign) :
        /\ call' = [op |-> "__ne__", self |-> self, other |-> other]
        /\ ret' = Ok(__ne__(heap[self], Operand(other)))
        /\ UNCHANGED <<_sr_cache, _proj_cache, _transform_fn_cache,
                       _geometry_type_map, raised, heap>>

NextValue ==
    \/ ConstructVariantCall
    \/ LoadTaggedCall
    \/ CopyCall
    \/ DeepcopyCall
    \/ SetStateCall
    \/ HashCall
    \/ ExportCall
    \/ EqCall
    \/ NeCall

SpecValue == Init /\ [][NextValue]_vars

\* equality as the claim has it: the same sr, and both geometries empty or
\* both non-empty and equal as point sets
ClaimedEqual(a, b) ==
    /\ a.sr = b.sr
    /\ \/ ~NonEmpty(a.base_geometry) /\ ~NonEmpty(b.base_geometry)
       \/ /\ NonEmpty(a.base_geometry)
          /\ NonEmpty(b.base_geometry)
          /\ equals(a.base_geometry, b.base_geometry)

(***************************************************************************)
(* C13.  For two instances a and b of any variants, a == b exactly when    *)
(* their sr are equal and either both base geometries are empty or both    *)
(* are non-empty and equal as shapes (not as coordinate lists); a != b is  *)
(* the negation; comparing with None or with an object that lacks the sr   *)
(* or base-geometry fields gives False, not an error.                      *)
(***************************************************************************)
C13_Equality ==
    /\ (call.op = "__eq__" /\ call.other \in DOMAIN heap)
          => ret = Ok(ClaimedEqual(heap[call.self], heap[call.other]))
    /\ (call.op = "__ne__" /\ call.other \in DOMAIN heap)
          => ret = Ok(~ClaimedEqual(heap[call.self], heap[call.other]))
    /\ (call.op = "__eq__" /\ call.other \in DOMAIN Foreign) => ret = Ok(FALSE)
    /\ (call.op = "__ne__" /\ call.other \in DOMAIN Foreign) => ret = Ok(TRUE)

C13_Witness ==
    /\ call.op = "__eq__"
    /\ call.other \in DOMAIN heap
    /\ heap[call.self].cls # heap[call.other].cls
    /\ heap[call.self].base_geometry # heap[call.other].base_geometry
    /\ NonEmpty(heap[call.self].base_geometry)
    /\ ret = Ok(TRUE)

C19_MemoizedHash ==
    /\ \A x \in DOMAIN heap :
           hash(heap[x]).res = Ok(Digest(export(heap[x])))
    /\ call.op = "hash" => ret = Ok(Digest(export(heap[call.self])))

(***************************************************************************)
(* Every way to an instance: one instance is built (constructor, sr_shape, *)
(* from_lat_lon, from_coords), then others are obtained from it (load,     *)
(* copy, transform, as_wgs84, as_utm, as_metric, buffer, location).        *)
(***************************************************************************)
\* the instances at hand all have points to measure from
AllNonEmpty == \A x \in DOMAIN heap : NonEmpty(heap[x].base_geometry)

\* no instance yet; one instance and room for the one obtained from it
Unbuilt == heap = EmptyDict

OneBuilt == heap # EmptyDict /\ Free("b")

NextPaths ==
    \/ Unbuilt /\ ConstructVariantCall
    \/ Unbuilt /\ SrShapeInCrsCall
    \/ Unbuilt /\ FromLatLonCall
    \/ Unbuilt /\ FromCoordsCall
    \/ OneBuilt /\ LoadTaggedCall
    \/ OneBuilt /\ CopyCall
    \/ OneBuilt /\ AllNonEmpty /\ TransformCall
    \/ OneBuilt /\ AllNonEmpty /\ AsWgs84Call
    \/ OneBuilt /\ AllNonEmpty /\ AsUtmCall
    \/ OneBuilt /\ AllNonEmpty /\ AsMetricCall
    \/ OneBuilt /\ AllNonEmpty /\ BufferCall
    \/ OneBuilt /\ AllNonEmpty /\ LocationCall

SpecPaths == Init /\ [][NextPaths]_vars

\* an Sr value: the pair of an identifier and an authority
IsSr(v) == DOMAIN v = {"srid", "authority"}

(***************************************************************************)
(* C18.  Every instance, however it was obtained (constructor with or      *)
(* without sr, sr_shape, from_lat_lon, from_coords, load, copy, transform, *)
(* as_*, buffer, location), has an Sr value as its sr, WGS-84 when the     *)
(* constructor was given none, and a geometry as its base_geometry, never  *)
(* the mapping it may have been built from.                                *)
(***************************************************************************)
C18_SrAndGeometry ==
    /\ \A x \in DOMAIN heap :
           /\ IsSr(heap[x].sr)
           /\ IsGeometry(heap[x].base_geometry)
           /\ "coordinates" \notin DOMAIN heap[x].base_geometry
    /\ (call.op = "construct" /\ ~call.sr_given) => heap[ret.val].sr = WGS_84

C18_Witness ==
    /\ call.op = "construct"
    /\ call.as_mapping
    /\ ~call.sr_given
    /\ ret.kind = "ok"
    /\ heap[ret.val].cls = "SrMultiPoint"
    /\ IsGeometry(heap[ret.val].base_geometry)

(***************************************************************************)
(* The three caches over a whole run: the registry called on the           *)
(* geographic CRS under both spellings of its authority, utm, and a point  *)
(* that is transformed, put in its UTM zone and buffered.                  *)
(***************************************************************************)
\* utm(lat, lon), called on its own
UtmAtCall ==
    \E lat \in {Dec(P1[2], 0)}, lon \in {Dec(P1[1], 0)} :
        LET r == utm(_sr_cache, lat, lon)
        IN  /\ call' = [op |-> "utm", lat |-> lat, lon |-> lon]
            /\ ret' = Ok(r.val)
            /\ _sr_cache' = r.sc
            /\ UNCHANGED <<_proj_cache, _transform_fn_cache,
                           _geometry_type_map, heap, raised>>

NextCaches ==
    \/ SrCall /\ call'.srid = WGS_84.srid
    \/ BySridCall /\ call'.srid = WGS_84.srid
    \/ ProjCall /\ call'.sr.srid = WGS_84.srid
    \/ TransformFnCall /\ call'.from_.srid = WGS_84.srid
                       /\ call'.to.srid = WGS_84.srid
    \/ UtmAtCall
    \/ Unbuilt /\ FromLatLonCall
    \/ OneBuilt /\ TransformCall
    \/ OneBuilt /\ AsUtmCall
    \/ OneBuilt /\ BufferCall

SpecCaches == Init /\ [][NextCaches]_vars

\* the cache d has every entry of the cache c, unchanged
Extends(c, d) ==
    /\ DOMAIN c \subseteq DOMAIN d
    /\ \A k \in DOMAIN c : d[k] = c[k]

(***************************************************************************)
(* C20.  Over any run of sr, by_srid, utm, Sr.proj, transform_fn and       *)
(* geometry operations the three caches only grow: no step removes a key   *)
(* or replaces a value.  A handle is built only for a key that is not yet  *)
(* cached, and a request for a cached key returns the cached handle and    *)
(* builds nothing; transform_fn(A, B) adds at most the key (A, B), never   *)
(* (B, A).                                                                 *)
(***************************************************************************)
C20_CachesAppendOnly ==
    [][/\ Extends(_sr_cache, _sr_cache')
       /\ Extends(_proj_cache, _proj_cache')
       /\ Extends(_transform_fn_cache, _transform_fn_cache')
       /\ \A k \in (DOMAIN _proj_cache') \ DOMAIN _proj_cache :
              _proj_cache'[k] = Proj(k[2], k[1])
       /\ (call'.op = "proj"
              /\ <<call'.sr.srid, call'.sr.authority>> \in DOMAIN _proj_cache)
             => /\ ret' = Ok(_proj_cache[<<call'.sr.srid, call'.sr.authority>>])
                /\ _proj_cache' = _proj_cache
       /\ call'.op = "transform_fn"
             => /\ (DOMAIN _transform_fn_cache') \ DOMAIN _transform_fn_cache
                       \subseteq {<<call'.from_, call'.to>>}
                /\ ret'.kind = "ok"
                      => /\ <<call'.from_, call'.to>> \in DOMAIN _transform_fn_cache'
                         /\ ret'.val = _transform_fn_cache'[<<call'.from_, call'.to>>]
      ]_vars

C20_Witness ==
    /\ call.op = "transform_fn"
    /\ call.from_ # call.to
    /\ <<call.from_, call.to>> \in DOMAIN _transform_fn_cache
    /\ <<call.to, call.from_>> \notin DOMAIN _transform_fn_cache
    /\ <<UTM_15N, WGS_84>> \in DOMAIN _transform_fn_cache
    /\ <<WGS_84, UTM_15N>> \in DOMAIN _transform_fn_cache
    /\ <<32615, "epsg">> \in DOMAIN _sr_cache
    /\ Cardinality(DOMAIN _proj_cache) = 3

\* the registry call just made failed with InvalidSrException
RegistryCallFailed ==
    /\ call'.op \in {"by_srid", "proj", "transform_fn"}
    /\ ret'.kind = "raise"
    /\ ret'.exc = "InvalidSrException"

\* the key of an Sr in the interning and projection-handle caches
KeyOf(s) == <<s.srid, s.authority>>

\* both Sr values of every cached transform function have their handles
\* cached
HandlesOfFunctionsCached(tc, pc) ==
    \A k \in DOMAIN tc : KeyOf(k[1]) \in DOMAIN pc /\ KeyOf(k[2]) \in DOMAIN pc

(***************************************************************************)
(* C23.  As claimed: when by_srid(validate=true), Sr.proj or transform_fn  *)
(* raises InvalidSrException, the Sr interning cache, the projection-      *)
(* handle cache and the transform-function cache hold exactly the entries  *)
(* they held before the call; and every key of the transform-function      *)
(* cache has both of its Sr values in the projection-handle cache.         *)
(***************************************************************************)
C23_FailureLeavesCachesAsTheyWere ==
    [][/\ RegistryCallFailed
             => UNCHANGED <<_sr_cache, _proj_cache, _transform_fn_cache>>
       /\ HandlesOfFunctionsCached(_transform_fn_cache', _proj_cache')]_vars

(***************************************************************************)
(* C23, amended.  A failing registry call caches nothing for the CRS that  *)
(* could not be resolved and removes or replaces nothing: the transform-   *)
(* function cache is as it was, and the projection-handle cache gains no   *)
(* key of an unresolvable CRS.  What it may leave behind is what it did    *)
(* before the failure: by_srid leaves the Sr it interned in the Sr cache,  *)
(* and transform_fn leaves the handle of a resolvable from_ in the         *)
(* projection-handle cache; Sr.proj itself leaves every cache as it was.   *)
(* Every key of the transform-function cache has both of its Sr values in  *)
(* the projection-handle cache.                                            *)
(***************************************************************************)
C23_FailureCachesNothingFailed ==
    [][/\ RegistryCallFailed
             => /\ _transform_fn_cache' = _transform_fn_cache
                /\ Extends(_sr_cache, _sr_cache')
                /\ Extends(_proj_cache, _proj_cache')
                /\ \A k \in DOMAIN _proj_cache' : EngineResolves(k[2], k[1])
                /\ call'.op = "by_srid"
                      => /\ _proj_cache' = _proj_cache
                         /\ (DOMAIN _sr_cache') \ DOMAIN _sr_cache
                                \subseteq {<<call'.srid, a>> : a \in AuthStrings}
                /\ call'.op = "proj" => UNCHANGED <<_sr_cache, _proj_cache>>
                /\ call'.op = "transform_fn"
                      => /\ _sr_cache' = _sr_cache
                         /\ (DOMAIN _proj_cache') \ DOMAIN _proj_cache
                                \subseteq {KeyOf(call'.from_)}
       /\ HandlesOfFunctionsCached(_transform_fn_cache', _proj_cache')]_vars

C23_Witness ==
    /\ call.op = "by_srid"
    /\ call.srid = 666
    /\ call.authority = Omitted
    /\ ret.kind = "raise"
    /\ ret.exc = "InvalidSrException"
    /\ DOMAIN _sr_cache = {<<666, "EPSG">>}
    /\ _proj_cache = EmptyDict

\* hash(x) is defined and is the digest of x's current export: x was not
\* restored from a saved state
HashIsCurrent(x) == hash(x).res = Ok(Digest(export(x)))

(***************************************************************************)
(* C22.  As claimed: for any two instances a and b of any variants whose   *)
(* hashes are defined, a == b implies hash(a) == hash(b), also when a and  *)
(* b are different wrapper classes around the same shape and when their    *)
(* shapes are equal but list their coordinates in another order.           *)
(***************************************************************************)
C22_EqualImpliesSameHash ==
    (/\ call.op = "__eq__"
     /\ call.other \in DOMAIN heap
     /\ ret = Ok(TRUE)
     /\ HashIsCurrent(heap[call.self])
     /\ HashIsCurrent(heap[call.other]))
        => hash(heap[call.self]).res = hash(heap[call.other]).res

(***************************************************************************)
(* Two threads that make the same first request.  sr(), Sr.proj and        *)
(* transform_fn() take no lock: each is a lookup in a module-level dict    *)
(* and, on KeyError, a construction and a store.  A dict lookup and a dict *)
(* store are each atomic under the interpreter lock; a thread switch can   *)
(* fall between any two of them.  The threads' frames are kept in the      *)
(* call record, their results in ret.  An object is a value with the       *)
(* identity of its builder: a thread, or "main" for what was cached before *)
(* the threads started.                                                    *)
(***************************************************************************)
Threads == {"t1", "t2"}

Obj(v, id) == [obj |-> v, id |-> id]

NoObj == Obj(None, "none")

\* a frame: the step the thread is at, the Sr whose handle it is resolving
\* ("self", "from_" or "to"), the object it built and the handles it holds
Frame(at, for, loc, p1, p2) ==
    [at |-> at, for |-> for, loc |-> loc, p1 |-> p1, p2 |-> p2]

Racing == call.op = "concurrent"

\* the builder of the entry a cache holds under a key
IdOf(cache, key) ==
    IF <<cache, key>> \in DOMAIN call.ids THEN call.ids[<<cache, key>>]
    ELSE "main"

\* whether == on projection handles compares their definitions or is the
\* default identity comparison depends on the pyproj release installed
ProjEqBuilds == {"value", "identity"}

Concurrent(fn, args, at, build) ==
    /\ ~Racing
    /\ call' = [op |-> "concurrent", fn |-> fn, args |-> args, proj_eq |-> build,
                frames |-> [t \in Threads |->
                               Frame(at, "self", NoObj, NoObj, NoObj)],
                ids |-> EmptyDict,
                before |-> [sr |-> _sr_cache, proj |-> _proj_cache,
                            fn |-> _transform_fn_cache]]
    /\ ret' = [t \in Threads |-> NoRet]
    /\ UNCHANGED <<_sr_cache, _proj_cache, _transform_fn_cache,
                   _geometry_type_map, heap, raised>>

\* the key sr() looks up: sr.py:97-101
SrKeyOf(srid, authority) == KeyOf(sr(EmptyDict, srid, authority).val)

\* both threads call sr(srid, authority), not yet interned
ConcurrentSr ==
    \E srid \in RegSrids, authority \in AuthArgs, build \in {"value"} :
        /\ SrKeyOf(srid, authority) \notin DOMAIN _sr_cache
        /\ Concurrent("sr", [srid |-> srid, authority |-> authority],
                      "sr:lookup", build)

\* both threads read s.proj, no handle cached
ConcurrentProj ==
    \E s \in RegSrs, build \in ProjEqBuilds :
        /\ KeyOf(s) \notin DOMAIN _proj_cache
        /\ Concurrent("proj", [sr |-> s], "proj:lookup", build)

\* both threads call transform_fn(from_, to), no function cached
ConcurrentTransformFn ==
    \E from_ \in RegSrs, to \in RegSrs, build \in ProjEqBuilds :
        /\ <<from_, to>> \notin DOMAIN _transform_fn_cache
        /\ Concurrent("transform_fn", [from_ |-> from_, to |-> to],
                      "fn:lookup", build)

At(t, at) == Racing /\ call.frames[t].at = at

\* the thread moves to the frame f
Goto(t, f) ==
    /\ call' = [call EXCEPT !.frames[t] = f]
    /\ ret' = ret

\* the thread returns or raises res
Return(t, res) ==
    /\ call' = [call EXCEPT !.frames[t].at = "done"]
    /\ ret' = [ret EXCEPT ![t] = res]

\* the thread stores call.frames[t].loc in a cache and returns it
Store(t, cache, key) ==
    /\ call' = [call EXCEPT !.frames[t].at = "done",
                            !.ids = Put(call.ids, <<cache, key>>, t)]
    /\ ret' = [ret EXCEPT ![t] = Ok(call.frames[t].loc)]

RaceSrKey == SrKeyOf(call.args.srid, call.args.authority)

\* sr.py:102-104: return _sr_cache[(srid, _authority)], or KeyError
SrLookup(t) ==
    /\ At(t, "sr:lookup")
    /\ IF RaceSrKey \in DOMAIN _sr_cache
       THEN Return(t, Ok(Obj(_sr_cache[RaceSrKey], IdOf("sr", RaceSrKey))))
       ELSE Goto(t, [call.frames[t] EXCEPT !.at = "sr:construct"])
    /\ UNCHANGED <<_sr_cache, _proj_cache, _transform_fn_cache,
                   _geometry_type_map, heap, raised>>

\* sr.py:105: _sr = Sr(srid=srid, authority=_authority)
SrConstruct(t) ==
    /\ At(t, "sr:construct")
    /\ Goto(t, [call.frames[t] EXCEPT
                   !.at = "sr:insert",
                   !.loc = Obj(Sr(RaceSrKey[1], RaceSrKey[2]), t)])
    /\ UNCHANGED <<_sr_cache, _proj_cache, _transform_fn_cache,
                   _geometry_type_map, heap, raised>>

\* an insert that rebinds the cache to a new dict holding the one entry
SrInsert_rebinds(t) ==
    /\ At(t, "sr:insert")
    /\ _sr_cache' = Put(EmptyDict, RaceSrKey, call.frames[t].loc.obj)
    /\ Store(t, "sr", RaceSrKey)
    /\ UNCHANGED <<_proj_cache, _transform_fn_cache,
                   _geometry_type_map, heap, raised>>

\* sr.py:106-107: _sr_cache[(srid, _authority)] = _sr; return _sr
SrInsert(t) ==
    /\ At(t, "sr:insert")
    /\ _sr_cache' = Put(_sr_cache, RaceSrKey, call.frames[t].loc.obj)
    /\ Store(t, "sr", RaceSrKey)
    /\ UNCHANGED <<_proj_cache, _transform_fn_cache,
                   _geometry_type_map, heap, raised>>

\* the Sr whose handle the thread is resolving
Target(t) ==
    IF call.frames[t].for = "from_" THEN call.args.from_
    ELSE IF call.frames[t].for = "to" THEN call.args.to
    ELSE call.args.sr

\* the handle h reaches the reader of .proj: the caller of Sr.proj, or
\* transform_fn, which reads from_.proj and then to.proj (sr.py:142-146)
Handle(t, h) ==
    IF call.frames[t].for = "from_"
    THEN Goto(t, [call.frames[t] EXCEPT !.at = "proj:lookup", !.for = "to",
                                        !.loc = NoObj, !.p1 = h])
    ELSE IF call.frames[t].for = "to"
    THEN Goto(t, [call.frames[t] EXCEPT !.at = "fn:construct",
                                        !.loc = NoObj, !.p2 = h])
    ELSE Return(t, Ok(h))

\* sr.py:51-53: return _proj_cache[(self.srid, self.authority)], or KeyError
ProjLookup(t) ==
    /\ At(t, "proj:lookup")
    /\ LET key == KeyOf(Target(t))
       IN  IF key \in DOMAIN _proj_cache
           THEN Handle(t, Obj(_proj_cache[key], IdOf("proj", key)))
           ELSE Goto(t, [call.frames[t] EXCEPT !.at = "proj:construct"])
    /\ UNCHANGED <<_sr_cache, _proj_cache, _transform_fn_cache,
                   _geometry_type_map, heap, raised>>

\* sr.py:55, 58-62: _proj = Proj(init=...), CRSError re-raised as
\* InvalidSrException, which transform_fn lets through
ProjConstruct(t) ==
    /\ At(t, "proj:construct")
    /\ LET s == Target(t)
           res == RaiseFrom("InvalidSrException", "CRSError", "CRSError")
       IN  IF EngineResolves(s.authority, s.srid)
           THEN /\ Goto(t, [call.frames[t] EXCEPT
                               !.at = "proj:insert",
                               !.loc = Obj(Proj(s.authority, s.srid), t)])
                /\ raised' = raised
           ELSE /\ Return(t, res)
                /\ raised' = Counted(res)
    /\ UNCHANGED <<_sr_cache, _proj_cache, _transform_fn_cache,
                   _geometry_type_map, heap>>

\* sr.py:56-57: _proj_cache[(self.srid, self.authority)] = _proj; return
ProjInsert(t) ==
    /\ At(t, "proj:insert")
    /\ LET key == KeyOf(Target(t))
           h == call.frames[t].loc
           f == call.frames[t]
       IN  /\ _proj_cache' = Put(_proj_cache, key, h.obj)
           /\ call' = [call EXCEPT
                  !.ids = Put(call.ids, <<"proj", key>>, t),
                  !.frames[t] =
                      IF f.for = "from_"
                      THEN [f EXCEPT !.at = "proj:lookup", !.for = "to",
                                     !.loc = NoObj, !.p1 = h]
                      ELSE IF f.for = "to"
                      THEN [f EXCEPT !.at = "fn:construct",
                                     !.loc = NoObj, !.p2 = h]
                      ELSE [f EXCEPT !.at = "done"]]
           /\ ret' = IF f.for = "self" THEN [ret EXCEPT ![t] = Ok(h)] ELSE ret
    /\ UNCHANGED <<_sr_cache, _transform_fn_cache,
                   _geometry_type_map, heap, raised>>

RaceFnKey == <<call.args.from_, call.args.to>>

\* sr.py:139-141: return _transform_fn_cache[(from_, to)], or KeyError
FnLookup(t) ==
    /\ At(t, "fn:lookup")
    /\ IF RaceFnKey \in DOMAIN _transform_fn_cache
       THEN Return(t, Ok(Obj(_transform_fn_cache[RaceFnKey],
                             IdOf("fn", RaceFnKey))))
       ELSE Goto(t, [call.frames[t] EXCEPT !.at = "proj:lookup",
                                           !.for = "from_"])
    /\ UNCHANGED <<_sr_cache, _proj_cache, _transform_fn_cache,
                   _geometry_type_map, heap, raised>>

\* sr.py:142-146: fn = partial(pyproj.transform, from_.proj, to.proj), the
\* two handles in hand
FnConstruct(t) ==
    /\ At(t, "fn:construct")
    /\ Goto(t, [call.frames[t] EXCEPT
                   !.at = "fn:insert",
                   !.loc = Obj([p1 |-> call.frames[t].p1.obj,
                                p2 |-> call.frames[t].p2.obj], t)])
    /\ UNCHANGED <<_sr_cache, _proj_cache, _transform_fn_cache,
                   _geometry_type_map, heap, raised>>

\* sr.py:147-148: _transform_fn_cache[(from_, to)] = fn; return fn
FnInsert(t) ==
    /\ At(t, "fn:insert")
    /\ _transform_fn_cache' =
           Put(_transform_fn_cache, RaceFnKey, call.frames[t].loc.obj)
    /\ Store(t, "fn", RaceFnKey)
    /\ UNCHANGED <<_sr_cache, _proj_cache, _geometry_type_map, heap, raised>>

\* before the threads start, the registry is called on WGS-84
NextRace ==
    \/ ~Racing /\ SrCall /\ call'.srid = WGS_84.srid
               /\ call'.authority = Authorities_EPSG
    \/ ~Racing /\ ProjCall /\ call'.sr = WGS_84
    \/ ~Racing /\ TransformFnCall /\ call'.from_ = WGS_84 /\ call'.to = WGS_84
    \/ ConcurrentSr
    \/ ConcurrentProj
    \/ ConcurrentTransformFn
    \/ \E t \in Threads : SrLookup(t)
    \/ \E t \in Threads : SrConstruct(t)
    \/ \E t \in Threads : SrInsert(t)
    \/ \E t \in Threads : ProjLookup(t)
    \/ \E t \in Threads : ProjConstruct(t)
    \/ \E t \in Threads : ProjInsert(t)
    \/ \E t \in Threads : FnLookup(t)
    \/ \E t \in Threads : FnConstruct(t)
    \/ \E t \in Threads : FnInsert(t)

SpecRace == Init /\ [][NextRace]_vars

\* both threads have returned or raised
RaceOver == Racing /\ \A t \in Threads : call.frames[t].at = "done"

\* the cache the threads race on, its name, and the key they ask for
RaceCacheName ==
    IF call.fn = "sr" THEN "sr" ELSE IF call.fn = "proj" THEN "proj" ELSE "fn"

RaceCache ==
    IF call.fn = "sr" THEN _sr_cache
    ELSE IF call.fn = "proj" THEN _proj_cache
    ELSE _transform_fn_cache

RaceKey ==
    IF call.fn = "sr" THEN RaceSrKey
    ELSE IF call.fn = "proj" THEN KeyOf(call.args.sr)
    ELSE RaceFnKey

\* the engine resolves every CRS the call names
RaceResolves ==
    IF call.fn = "sr" THEN TRUE
    ELSE IF call.fn = "proj"
    THEN EngineResolves(call.args.sr.authority, call.args.sr.srid)
    ELSE /\ EngineResolves(call.args.from_.authority, call.args.from_.srid)
         /\ EngineResolves(call.args.to.authority, call.args.to.srid)

\* a == b in Python: an Sr is a tuple and compares by value, a
\* functools.partial compares by identity, a projection handle as the
\* installed pyproj has it
PyEq(a, b) ==
    IF call.fn = "sr" THEN a.obj = b.obj
    ELSE IF call.fn = "proj" /\ call.proj_eq = "value" THEN a.obj = b.obj
    ELSE a.obj = b.obj /\ a.id = b.id

\* the entry the raced cache holds under the raced key
RaceEntry == Obj(RaceCache[RaceKey], IdOf(RaceCacheName, RaceKey))

\* every entry cached before the threads started is still the same object
PriorEntriesKept ==
    /\ Extends(call.before.sr, _sr_cache)
    /\ Extends(call.before.proj, _proj_cache)
    /\ Extends(call.before.fn, _transform_fn_cache)
    /\ \A k \in DOMAIN call.ids :
           k[2] \notin DOMAIN call.before[k[1]]

\* the raced cache gained the raced key and nothing else
OneEntryGained == DOMAIN RaceCache = DOMAIN call.before[RaceCacheName] \cup {RaceKey}

(***************************************************************************)
(* C21.  As claimed: when two threads make the first request for the same  *)
(* uncached key (of a CRS the engine resolves) in sr(), Sr.proj or         *)
(* transform_fn(), then however their steps interleave both obtain a       *)
(* result, the two results are equal to each other and to the entry left   *)
(* in the cache, the cache has gained exactly that entry, and the entries  *)
(* for other keys are unaffected.                                          *)
(***************************************************************************)
C21_RacingCallersGetEqualResults ==
    (RaceOver /\ RaceResolves) =>
        /\ \A t \in Threads : ret[t].kind = "ok"
        /\ RaceKey \in DOMAIN RaceCache
        /\ \A t \in Threads, u \in Threads : PyEq(ret[t].val, ret[u].val)
        /\ \A t \in Threads : PyEq(ret[t].val, RaceEntry)
        /\ OneEntryGained
        /\ PriorEntriesKept

(***************************************************************************)
(* C21, amended.  Both threads obtain a result, and the two results and    *)
(* the entry left in the cache are built from the same arguments: the same *)
(* Sr, a handle of the same CRS, a function over handles of the same two   *)
(* CRSs.  For sr() they are equal.  A handle or a function may be a        *)
(* distinct object per thread: the entry left in the cache is the object   *)
(* one of the two threads got, and a thread whose lookup found the entry   *)
(* got that object.  The cache has gained exactly that entry and the       *)
(* entries cached before are unaffected.  When the engine does not resolve *)
(* a CRS of the call, both threads get InvalidSrException and no entry is  *)
(* made for the key.                                                       *)
(***************************************************************************)
C21_RacingCallersGetEquivalentResults ==
    RaceOver =>
        IF RaceResolves
        THEN /\ \A t \in Threads : ret[t].kind = "ok"
             /\ RaceKey \in DOMAIN RaceCache
             /\ \A t \in Threads : ret[t].val.obj = RaceEntry.obj
             /\ \E t \in Threads : ret[t].val = RaceEntry
             /\ \A t \in Threads : ret[t].val.id \in {t, RaceEntry.id}
             /\ call.fn = "sr" =>
                    \A t \in Threads : PyEq(ret[t].val, RaceEntry)
             /\ OneEntryGained
             /\ PriorEntriesKept
        ELSE /\ \A t \in Threads :
                    /\ ret[t].kind = "raise"
                    /\ ret[t].exc = "InvalidSrException"
             /\ RaceKey \notin DOMAIN RaceCache
             /\ PriorEntriesKept

\* both threads missed, both built a function and stored it; each got its own
C21_Witness ==
    /\ RaceOver
    /\ call.fn = "transform_fn"
    /\ call.before.sr # EmptyDict
    /\ call.before.proj # EmptyDict
    /\ call.before.fn # EmptyDict
    /\ ret["t1"].kind = "ok"
    /\ ret["t2"].kind = "ok"
    /\ ret["t1"].val.id = "t1"
    /\ ret["t2"].val.id = "t2"
    /\ ret["t1"].val.obj = ret["t2"].val.obj
    /\ RaceEntry \in {ret["t1"].val, ret["t2"].val}

=============================================================================
